---- MODULE Spec2Model ----
(***************************************************************************)
(* A model of esp_littlefs.c: the glue between a POSIX-like VFS call       *)
(* surface and the littlefs engine.  The module holds                      *)
(*   - the file-descriptor allocator/cache of one volume (pure operators   *)
(*     over a volume record and a heap of OpenFile records),               *)
(*   - the dispatch entry points of one volume, as whole handlers (Spec),  *)
(*     and open, close and format alone with enough records to make the    *)
(*     cache grow (SpecAlloc),                                             *)
(*   - open, close and read cut at their lock sections and run by several  *)
(*     threads (SpecMT), and the same next to stat and                     *)
(*     esp_littlefs_format (SpecRace); open and fstat with their nested    *)
(*     lock sections (SpecReenter); open with every flag combination       *)
(*     (SpecFlags),                                                        *)
(*   - close on a volume whose list has lost records (SpecInconsistent),   *)
(*     and the lookup by path over paths of equal hash (SpecFind),         *)
(*   - the volume registry and its life cycle, as whole entry points       *)
(*     (SpecReg) and cut at their accesses of the table, run by several    *)
(*     threads (SpecRegMT), and the creation of the registry's mutex cut   *)
(*     at its critical section (SpecLockInit),                             *)
(*   - one directory stream: opendir, readdir, seekdir, telldir and        *)
(*     closedir (SpecDir), and seekdir cut at the iterations of its loop   *)
(*     (SpecSeek),                                                         *)
(*   - the modification time attribute: utime, open, stat and fstat        *)
(*     (SpecMtime); the other specifications leave the attribute store     *)
(*     out, none of their properties reads it,                             *)
(*   - esp_littlefs_info next to the registry (SpecInfo).                  *)
(* The littlefs engine and the allocator are outside the repository: an    *)
(* engine call is modelled by its effect on a table of directory entries   *)
(* and by a result the environment chooses; an allocation may fail.        *)
(***************************************************************************)
EXTENDS Integers, Sequences, FiniteSets, TLC

(***************************************************************************)
(* Bounds of the model.                                                    *)
(***************************************************************************)
MaxOpen == 2
NThreads == 2
MaxPartitions == 2
MaxRegOpen == 1
MaxAlloc == 5
MaxEntries == 2
MaxOffset == 4
MaxFind == 3
MaxTime == 4
FlashBlocks == 2

(***************************************************************************)
(* Program constants.                                                      *)
(***************************************************************************)
CONFIG_LITTLEFS_FD_CACHE_REALLOC_FACTOR == 2
CONFIG_LITTLEFS_BLOCK_SIZE == 4096
CONFIG_LITTLEFS_FD_CACHE_MIN_SIZE == 4
UINT16_MAX == 65535
UINT16_MOD == 65536
\* sizeof(entry->d_name): newlib's struct dirent holds 256 bytes.
D_NAME_SIZE == 256

\* littlefs error codes (enum lfs_error), as the handlers negate them.
LFS_ERR_OK == 0
LFS_ERR_IO == -5
LFS_ERR_NOENT == -2
LFS_ERR_EXIST == -17
LFS_ERR_ISDIR == -21
LFS_ERR_BADF == -9
LFS_ERR_INVAL == -22
LFS_ERR_NOMEM == -12
LFS_ERR_NOATTR == -61

\* errno values of the platform (newlib).
EBUSY == 16
ENOTDIR == 20

\* esp_err_t values.
ESP_OK == 0
ESP_FAIL == -1
ESP_ERR_NO_MEM == 257
ESP_ERR_INVALID_ARG == 258
ESP_ERR_INVALID_STATE == 259
ESP_ERR_NOT_FOUND == 261

\* fcntl flags (newlib) and littlefs open flags (enum lfs_open_flags).
O_RDONLY == 0
O_WRONLY == 1
O_RDWR == 2
O_APPEND == 8
O_CREAT == 512
O_TRUNC == 1024
O_EXCL == 2048
LFS_O_RDONLY == 1
LFS_O_WRONLY == 2
LFS_O_RDWR == 3
LFS_O_CREAT == 256
LFS_O_EXCL == 512
LFS_O_TRUNC == 1024
LFS_O_APPEND == 2048

(***************************************************************************)
(* Values.                                                                 *)
(***************************************************************************)
\* The null pointer of record pointers; a pointer read from outside the
\* cache array; the errno of a handler that did not assign it.
NULL == 0
WILD == -1
NoErrno == -1

\* Addresses of OpenFile records.
RecIds == 1 .. MaxOpen
Threads == 1 .. NThreads
Slots == 0 .. MaxPartitions - 1

\* Partition labels: the two the format entry point knows, and another.
Labels == {"internal", "external", "data"}

\* A registry slot holds a null pointer or a pointer to a volume context.
NullPtr == <<>>
Ptr(v) == <<v>>
Deref(p) == p[1]

\* Paths are byte strings: "/a", "/b" (files) and "/d" (a directory).
PathA == <<47, 97>>
PathB == <<47, 98>>
PathD == <<47, 100>>
Paths == {PathA, PathB, PathD}
FilePaths == {PathA, PathB}
EmptyPath == <<>>

Min(a, b) == IF a < b THEN a ELSE b

RECURSIVE BitAnd(_, _)
BitAnd(a, b) ==
    IF a = 0 \/ b = 0 THEN 0
    ELSE (IF a % 2 = 1 /\ b % 2 = 1 THEN 1 ELSE 0) + 2 * BitAnd(a \div 2, b \div 2)

RECURSIVE BitOr(_, _)
BitOr(a, b) ==
    IF a = 0 THEN b
    ELSE IF b = 0 THEN a
    ELSE (IF a % 2 = 1 \/ b % 2 = 1 THEN 1 ELSE 0) + 2 * BitOr(a \div 2, b \div 2)

(***************************************************************************)
(* compute_hash: 32 bit DJB2, hash = hash * 33 + c for each byte.          *)
(* A uint32_t hash is kept as <<high 16 bits, low 16 bits>>.               *)
(***************************************************************************)
HashStep(hash, c) ==
    LET lo == hash[2] * 33 + c
    IN  <<(hash[1] * 33 + lo \div UINT16_MOD) % UINT16_MOD, lo % UINT16_MOD>>

RECURSIVE hash_from(_, _)
hash_from(hash, path) ==
    IF path = <<>> THEN hash
    ELSE hash_from(HashStep(hash, Head(path)), Tail(path))

compute_hash(path) == hash_from(<<0, 5381>>, path)

(***************************************************************************)
(* esp_littlefs_flags_conv.                                                *)
(***************************************************************************)
OrIf(cond, lfs_flags, bit) == IF cond THEN BitOr(lfs_flags, bit) ELSE lfs_flags

\* A translation that tests O_APPEND like the other bits.
flags_conv_append_bit(m) ==
    LET f1 == OrIf(BitAnd(m, O_APPEND) # 0, 0, LFS_O_APPEND)
        f2 == OrIf(m = O_RDONLY, f1, LFS_O_RDONLY)
        f3 == OrIf(BitAnd(m, O_WRONLY) # 0, f2, LFS_O_WRONLY)
        f4 == OrIf(BitAnd(m, O_RDWR) # 0, f3, LFS_O_RDWR)
        f5 == OrIf(BitAnd(m, O_EXCL) # 0, f4, LFS_O_EXCL)
        f6 == OrIf(BitAnd(m, O_CREAT) # 0, f5, LFS_O_CREAT)
    IN  OrIf(BitAnd(m, O_TRUNC) # 0, f6, LFS_O_TRUNC)

esp_littlefs_flags_conv(m) ==
    LET f1 == OrIf(m = O_APPEND, 0, LFS_O_APPEND)
        f2 == OrIf(m = O_RDONLY, f1, LFS_O_RDONLY)
        f3 == OrIf(BitAnd(m, O_WRONLY) # 0, f2, LFS_O_WRONLY)
        f4 == OrIf(BitAnd(m, O_RDWR) # 0, f3, LFS_O_RDWR)
        f5 == OrIf(BitAnd(m, O_EXCL) # 0, f4, LFS_O_EXCL)
        f6 == OrIf(BitAnd(m, O_CREAT) # 0, f5, LFS_O_CREAT)
    IN  OrIf(BitAnd(m, O_TRUNC) # 0, f6, LFS_O_TRUNC)

(***************************************************************************)
(* The heap of OpenFile records (vfs_littlefs_file_t).  calloc hands out a *)
(* zero-filled record: hash 0 and an empty path.                           *)
(***************************************************************************)
FreshRecord == [live |-> TRUE, hash |-> <<0, 0>>, path |-> EmptyPath]
FreedRecord == [live |-> FALSE, hash |-> <<0, 0>>, path |-> EmptyPath]

\* low_calloc returns the address of some free block: the block at hint when
\* that one is free, the lowest free block otherwise.
HasFreeRecord(h) == \E r \in DOMAIN h : ~h[r].live
low_calloc_file(h, hint) ==
    IF hint \in DOMAIN h /\ ~h[hint].live THEN hint
    ELSE CHOOSE r \in DOMAIN h : ~h[r].live /\ \A q \in DOMAIN h : ~h[q].live => r <= q

(***************************************************************************)
(* A volume context (esp_littlefs_t).  cache is the descriptor array,      *)
(* descriptor d being cache[d + 1]; cache_null says that the cache pointer *)
(* is null; file is the open-file list from its head; fs_mounted is the    *)
(* state of the engine behind efs->fs.                                     *)
(***************************************************************************)
Zeros(n) == [i \in 1 .. n |-> NULL]

MountedVolume(label) ==
    [label |-> label, cache |-> Zeros(CONFIG_LITTLEFS_FD_CACHE_MIN_SIZE),
     cache_size |-> CONFIG_LITTLEFS_FD_CACHE_MIN_SIZE, cache_null |-> FALSE,
     fd_count |-> 0, file |-> <<>>, fs_mounted |-> TRUE, base_path |-> ""]

UnmountedVolume(label) ==
    [label |-> label, cache |-> <<>>, cache_size |-> 0, cache_null |-> TRUE,
     fd_count |-> 0, file |-> <<>>, fs_mounted |-> FALSE, base_path |-> ""]

\* (uint32_t)fd > n and (uint32_t)fd >= n, for n a uint16_t: a negative int
\* converts to a value of at least 2^31.
U32Greater(fd, n) == fd < 0 \/ fd > n
U32GreaterEq(fd, n) == fd < 0 \/ fd >= n

\* efs->cache[fd]: a null cache pointer faults; an index outside the array
\* reads whatever lies behind it (garbage, chosen by the environment).
InCache(e, fd) == ~e.cache_null /\ fd >= 0 /\ fd < Len(e.cache)

\* Slot fd of the cache holds a record.
SlotBound(e, fd) == InCache(e, fd) /\ e.cache[fd + 1] # NULL

CacheRead(e, fd, garbage) ==
    IF e.cache_null THEN [val |-> NULL, oob |-> FALSE, crash |-> TRUE]
    ELSE IF InCache(e, fd) THEN [val |-> e.cache[fd + 1], oob |-> FALSE, crash |-> FALSE]
    ELSE [val |-> garbage, oob |-> TRUE, crash |-> FALSE]

(***************************************************************************)
(* esp_littlefs_free_fds: release every OpenFile record and the cache.     *)
(***************************************************************************)
esp_littlefs_free_fds(e, h) ==
    [e |-> [e EXCEPT !.cache = <<>>, !.cache_null = TRUE, !.cache_size = 0,
                     !.fd_count = 0, !.file = <<>>],
     h |-> [r \in DOMAIN h |-> IF \E k \in 1 .. Len(e.file) : e.file[k] = r
                             THEN FreedRecord ELSE h[r]]]

(***************************************************************************)
(* esp_littlefs_allocate_fd.  cache_ok and file_ok are the outcomes of     *)
(* realloc and low_calloc.  The result holds the volume, the heap, the     *)
(* descriptor (fd), the record (file) and whether the call faulted.        *)
(***************************************************************************)
\* for(i=0; i < cache_size; i++) if (cache[i] == NULL) break;
FirstFree(cache) ==
    IF \E i \in 1 .. Len(cache) : cache[i] = NULL
    THEN (CHOOSE i \in 1 .. Len(cache) :
              cache[i] = NULL /\ \A k \in 1 .. Len(cache) : cache[k] = NULL => i <= k) - 1
    ELSE Len(cache)

\* A growth by one slot.
grow_cache_by_one(e) ==
    [e EXCEPT !.cache = @ \o Zeros(1), !.cache_size = (@ + 1) % UINT16_MOD,
              !.cache_null = FALSE]

GrowCache(e) ==
    LET new_size == Min(UINT16_MAX, CONFIG_LITTLEFS_FD_CACHE_REALLOC_FACTOR * e.cache_size) % UINT16_MOD
    IN  [e EXCEPT !.cache = @ \o Zeros(new_size - e.cache_size),
                  !.cache_size = new_size, !.cache_null = FALSE]

\* Lines 682-728: grow the cache if it is full, allocate the record, find
\* the first null slot.
alloc_find(e, h, cache_ok, file_ok) ==
    LET grow == e.fd_count + 1 > e.cache_size
        e1 == IF grow /\ cache_ok THEN GrowCache(e) ELSE e
        i == FirstFree(e1.cache)
        file == low_calloc_file(h, i + 1)
    IN  IF grow /\ ~cache_ok
        THEN [e |-> e, h |-> h, fd |-> -1, file |-> NULL, crash |-> FALSE]
        ELSE IF ~file_ok
        THEN [e |-> e1, h |-> h, fd |-> -1, file |-> NULL, crash |-> FALSE]
        ELSE [e |-> e1, h |-> [h EXCEPT ![file] = FreshRecord], fd |-> i,
              file |-> file, crash |-> e1.cache_null /\ e1.cache_size > 0]

\* Lines 725-732: bind the slot, link the record at the head of the list,
\* count it.
alloc_bind(e, i, file) ==
    [e EXCEPT !.cache = IF i < Len(@) THEN [@ EXCEPT ![i + 1] = file] ELSE @,
              !.file = <<file>> \o @,
              !.fd_count = (@ + 1) % UINT16_MOD]

esp_littlefs_allocate_fd(e, h, cache_ok, file_ok) ==
    LET a == alloc_find(e, h, cache_ok, file_ok)
    IN  IF a.crash THEN [a EXCEPT !.fd = -1]
        ELSE IF a.fd < 0 THEN a
        ELSE [a EXCEPT !.e = alloc_bind(a.e, a.fd, a.file)]

(***************************************************************************)
(* esp_littlefs_free_fd.  ret is the function's result; crash says that    *)
(* it dereferenced a null pointer.                                         *)
(***************************************************************************)
InList(list, file) == \E k \in 1 .. Len(list) : list[k] = file

RemoveFromList(list, file) ==
    LET k == CHOOSE j \in 1 .. Len(list) : list[j] = file /\ \A q \in 1 .. j - 1 : list[q] # file
    IN  SubSeq(list, 1, k - 1) \o SubSeq(list, k + 1, Len(list))

esp_littlefs_free_fd(e, h, fd) ==
    LET file == e.cache[fd + 1]
        same == [e |-> e, h |-> h, ret |-> -1, crash |-> FALSE]
    IN  IF U32GreaterEq(fd, e.cache_size) THEN same
        ELSE IF e.cache_null THEN [same EXCEPT !.crash = TRUE]
        ELSE IF file = NULL THEN [same EXCEPT !.crash = TRUE]
        ELSE IF ~InList(e.file, file) THEN same
        ELSE [e |-> [e EXCEPT !.file = RemoveFromList(@, file),
                              !.cache = [@ EXCEPT ![fd + 1] = NULL],
                              !.fd_count = (@ - 1) % UINT16_MOD],
              h |-> [h EXCEPT ![file] = FreedRecord],
              ret |-> 0, crash |-> FALSE]

(***************************************************************************)
(* esp_littlefs_get_fd_by_name: the lowest descriptor whose record has     *)
(* the hash and the bytes of path, or -1; the scan ends after fd_count     *)
(* populated slots.                                                        *)
(***************************************************************************)
RECURSIVE fd_scan(_, _, _, _, _)
fd_scan(e, h, path, i, j) ==
    IF ~(i < e.cache_size /\ j < e.fd_count) \/ ~InCache(e, i) THEN -1
    ELSE IF e.cache[i + 1] = NULL THEN fd_scan(e, h, path, i + 1, j)
    ELSE IF h[e.cache[i + 1]].hash = compute_hash(path) /\ h[e.cache[i + 1]].path = path
    THEN i
    ELSE fd_scan(e, h, path, i + 1, j + 1)

\* A scan that ends one populated slot early.
get_fd_by_name_short_scan(e, h, path) ==
    fd_scan([e EXCEPT !.fd_count = IF @ > 0 THEN @ - 1 ELSE 0], h, path, 0, 0)

\* The scan of a build with CONFIG_LITTLEFS_USE_ONLY_HASH: the hash alone
\* decides.
RECURSIVE fd_scan_only_hash(_, _, _, _, _)
fd_scan_only_hash(e, h, path, i, j) ==
    IF ~(i < e.cache_size /\ j < e.fd_count) \/ ~InCache(e, i) THEN -1
    ELSE IF e.cache[i + 1] = NULL THEN fd_scan_only_hash(e, h, path, i + 1, j)
    ELSE IF h[e.cache[i + 1]].hash = compute_hash(path) THEN i
    ELSE fd_scan_only_hash(e, h, path, i + 1, j + 1)

get_fd_by_name_only_hash(e, h, path) == fd_scan_only_hash(e, h, path, 0, 0)

esp_littlefs_get_fd_by_name(e, h, path) == fd_scan(e, h, path, 0, 0)

(***************************************************************************)
(* The engine.  nodes is the directory tree the engine keeps: for each     *)
(* path "none", "reg" or "dir".  An engine call on a mounted file system   *)
(* with valid arguments either fails with an I/O error (eng = "err") or    *)
(* does what littlefs documents (eng = "ok"); a call on an unmounted file  *)
(* system or with a wild pointer is outside the engine's contract and may  *)
(* also fault (eng = "crash").                                             *)
(***************************************************************************)
EngOutcomes == {"ok", "err", "crash"}

EngAllowed(e, ptr, eng) == eng = "crash" => (~e.fs_mounted \/ ptr = WILD)

lfs_file_open(e, n, path, lfs_flags, eng) ==
    IF eng = "err" THEN LFS_ERR_IO
    ELSE IF ~e.fs_mounted THEN LFS_ERR_OK
    ELSE IF n[path] = "dir" THEN LFS_ERR_ISDIR
    ELSE IF n[path] = "none"
    THEN (IF BitAnd(lfs_flags, LFS_O_CREAT) # 0 THEN LFS_ERR_OK ELSE LFS_ERR_NOENT)
    ELSE IF BitAnd(lfs_flags, LFS_O_CREAT) # 0 /\ BitAnd(lfs_flags, LFS_O_EXCL) # 0
    THEN LFS_ERR_EXIST
    ELSE LFS_ERR_OK

lfs_stat(e, n, path, eng) ==
    IF eng = "err" THEN LFS_ERR_IO
    ELSE IF ~e.fs_mounted THEN LFS_ERR_OK
    ELSE IF n[path] = "none" THEN LFS_ERR_NOENT
    ELSE LFS_ERR_OK

lfs_remove(e, n, path, eng) ==
    IF eng = "err" THEN LFS_ERR_IO
    ELSE IF ~e.fs_mounted THEN LFS_ERR_OK
    ELSE IF n[path] = "none" THEN LFS_ERR_NOENT
    ELSE LFS_ERR_OK

lfs_rename(e, n, src, dst, eng) ==
    IF eng = "err" THEN LFS_ERR_IO
    ELSE IF ~e.fs_mounted THEN LFS_ERR_OK
    ELSE IF n[src] = "none" THEN LFS_ERR_NOENT
    ELSE IF n[dst] = "dir" /\ n[src] = "reg" THEN LFS_ERR_ISDIR
    ELSE LFS_ERR_OK

\* A file operation of the engine on the record behind ptr
\* (lfs_file_read, _write, _seek, _sync, _close).
lfs_file_op(eng) == IF eng = "err" THEN LFS_ERR_IO ELSE LFS_ERR_OK

EmptyTree == [p \in Paths |-> "none"]

(***************************************************************************)
(* Directory streams (vfs_littlefs_dir_t).  The engine lists a directory   *)
(* as ".", "..", then the directory's entries; lfs_dir_read hands out the  *)
(* entry at the stream's position and returns 1, or returns 0 at the end.  *)
(* A stream holds: list, the engine's listing; pos, the engine's position  *)
(* (lfs_dir_t d); e, the dirent buffer; offset.                            *)
(***************************************************************************)
Dot == <<46>>
DotDot == <<46, 46>>

\* Entry names: "a", "b" and ".a"; "b" is a directory.
DirNames == {<<97>>, <<98>>, <<46, 97>>}
InfoOf(name) == [name |-> name, type |-> IF name = <<98>> THEN "dir" ELSE "reg"]
ZeroInfo == [name |-> <<>>, type |-> "none"]
PseudoEntries == <<[name |-> Dot, type |-> "dir"], [name |-> DotDot, type |-> "dir"]>>

\* The contents a directory can have: up to MaxEntries distinct names.
DirContents ==
    {c \in UNION {[1 .. n -> DirNames] : n \in 0 .. MaxEntries} :
        \A i, j \in DOMAIN c : i # j => c[i] # c[j]}

ZeroDirent == [d_ino |-> 0, d_type |-> "DT_UNKNOWN", d_name |-> <<>>]

\* No stream is open.
NoDir == [open |-> FALSE, list |-> <<>>, pos |-> 0, offset |-> 0, e |-> ZeroDirent]

\* The stream low_calloc and lfs_dir_open make for a directory of content c.
OpenedDir(c) ==
    [open |-> TRUE, list |-> PseudoEntries \o [k \in DOMAIN c |-> InfoOf(c[k])],
     pos |-> 0, offset |-> 0, e |-> ZeroDirent]

lfs_dir_read(d, ok) ==
    IF ~ok THEN [res |-> LFS_ERR_IO, info |-> ZeroInfo, pos |-> d.pos]
    ELSE IF d.pos < Len(d.list)
    THEN [res |-> 1, info |-> d.list[d.pos + 1], pos |-> d.pos + 1]
    ELSE [res |-> 0, info |-> ZeroInfo, pos |-> d.pos]

\* strncpy(dst, src, n) for a source shorter than n, or its first n bytes.
strncpy(src, n) == SubSeq(src, 1, Min(Len(src), n))

\* A skip test that knows "." only.
is_dot_only(name) == name = Dot

\* strcmp(info.name, ".") == 0 || strcmp(info.name, "..") == 0
is_pseudo(name) == name = Dot \/ name = DotDot

\* do { res = lfs_dir_read(...); } while (res > 0 && pseudo entry).
\* fail_at numbers the lfs_dir_read call that returns an error (0: none).
RECURSIVE dir_read_loop(_, _)
dir_read_loop(d, fail_at) ==
    LET r == lfs_dir_read(d, fail_at # 1)
        d1 == [d EXCEPT !.pos = r.pos]
    IN  IF r.res > 0 /\ is_pseudo(r.info.name)
        THEN dir_read_loop(d1, IF fail_at > 0 THEN fail_at - 1 ELSE 0)
        ELSE [d |-> d1, res |-> r.res, info |-> r.info]

\* A readdir_r that leaves the offset alone at the end of the directory.
readdir_r_end_keeps_offset(d, fail_at) ==
    LET l == dir_read_loop(d, fail_at)
        entry == [d_ino |-> 0,
                  d_type |-> IF l.info.type = "reg" THEN "DT_REG" ELSE "DT_DIR",
                  d_name |-> strncpy(l.info.name, D_NAME_SIZE)]
    IN  IF l.res < 0
        THEN [d |-> l.d, ret |-> -1, err |-> -l.res, out_dirent |-> NullPtr]
        ELSE IF l.res = 0
        THEN [d |-> l.d, ret |-> 0, err |-> NoErrno, out_dirent |-> NullPtr]
        ELSE [d |-> [l.d EXCEPT !.e = entry, !.offset = @ + 1], ret |-> 0,
              err |-> NoErrno, out_dirent |-> Ptr(entry)]

\* The result: the stream, the return value, errno and *out_dirent (a null
\* pointer or a pointer to the entry; not assigned when ret is -1).
vfs_littlefs_readdir_r(d, fail_at) ==
    LET l == dir_read_loop(d, fail_at)
        entry == [d_ino |-> 0,
                  d_type |-> IF l.info.type = "reg" THEN "DT_REG" ELSE "DT_DIR",
                  d_name |-> strncpy(l.info.name, D_NAME_SIZE)]
    IN  IF l.res < 0
        THEN [d |-> l.d, ret |-> -1, err |-> -l.res, out_dirent |-> NullPtr]
        ELSE IF l.res = 0
        THEN [d |-> [l.d EXCEPT !.offset = @ + 1], ret |-> 0, err |-> NoErrno,
              out_dirent |-> NullPtr]
        ELSE [d |-> [l.d EXCEPT !.e = entry, !.offset = @ + 1], ret |-> 0,
              err |-> NoErrno, out_dirent |-> Ptr(entry)]

\* vfs_littlefs_readdir: the entry, or a null pointer at the end and on an
\* error.
vfs_littlefs_readdir(d, fail_at) ==
    LET r == vfs_littlefs_readdir_r(d, fail_at)
    IN  IF r.ret # 0 THEN [r EXCEPT !.out_dirent = NullPtr] ELSE r

\* while(dir->offset < offset) readdir_r; fails numbers the readdir_r call
\* whose lfs_dir_read returns an error (0: none).
RECURSIVE seekdir_loop(_, _, _)
seekdir_loop(d, offset, fails) ==
    IF ~(d.offset < offset) THEN d
    ELSE LET r == vfs_littlefs_readdir_r(d, IF fails = 1 THEN 1 ELSE 0)
         IN  IF r.ret # 0 THEN r.d
             ELSE seekdir_loop(r.d, offset, IF fails > 0 THEN fails - 1 ELSE 0)

\* A seekdir that replays from where the stream stands, without a rewind.
seekdir_no_rewind(d, offset, rewind_ok, fails) ==
    seekdir_loop([d EXCEPT !.offset = IF offset < @ THEN 0 ELSE @], offset, fails)

vfs_littlefs_seekdir(d, offset, rewind_ok, fails) ==
    IF offset < d.offset
    THEN IF ~rewind_ok THEN d
         ELSE seekdir_loop([d EXCEPT !.pos = 0, !.offset = 0], offset, fails)
    ELSE seekdir_loop(d, offset, fails)

vfs_littlefs_telldir(d) == d.offset

(***************************************************************************)
(* The mtime attribute (LITTLEFS_ATTR_MTIME) the engine stores with a      *)
(* path: a time_t value, or NoAttr when the path has none.                 *)
(***************************************************************************)
NoAttr == -1

\* sizeof(time_t), the size of the attribute.
SIZEOF_TIME_T == 4
NoAttrs == [p \in Paths |-> NoAttr]

(***************************************************************************)
(* State.                                                                  *)
(***************************************************************************)
VARIABLES
    efs,        \* the volume context the entry points are bound to
    heap,       \* the OpenFile records, by address
    nodes,      \* the engine's directory tree
    crashed,    \* a handler dereferenced a null pointer, or the engine faulted
    last,       \* the handler that returned last: its inputs and its results
    lock,       \* efs->lock, a recursive mutex: its owner (0: none) and depth
    pc,         \* for each thread, where it stands inside an entry point
    loc,        \* for each thread, the local variables of its call
    _efs,       \* the registry: for each slot a null pointer or a volume context
    _efs_lock,  \* the registry's mutex: whether it was created, its owner, the
                \* mutex the pointer names, the mutexes made, who is inside mux
    vfs_paths,  \* the base paths registered with the VFS layer
    leaked,     \* a volume context was allocated and is referenced nowhere
    hung,       \* a thread waits for a mutex that it holds itself
    dir,        \* the directory stream the caller holds (vfs_littlefs_dir_t)
    attrs       \* the engine's mtime attribute of each path (NoAttr: none)

volVars == <<efs, heap, nodes, crashed, last>>
mtVars == <<lock, pc, loc>>
regVars == <<_efs, _efs_lock, vfs_paths, leaked, hung>>

\* What a handler hands back: ret and the errno it assigned (NoErrno when
\* none); calls is the set of engine functions it called; oob says that it
\* indexed the cache outside 0 .. cache_size - 1.
Outcome(op, path, path2, fd, ret, err, calls, oob) ==
    [op |-> op, path |-> path, path2 |-> path2, fd |-> fd, ret |-> ret,
     err |-> err, calls |-> calls, oob |-> oob, label |-> "", args |-> {}, trace |-> <<>>]

NoOutcome == Outcome("none", EmptyPath, EmptyPath, -1, 0, NoErrno, {}, FALSE)

Crash(op, path, fd, calls, oob) ==
    /\ crashed' = TRUE
    /\ last' = Outcome(op, path, EmptyPath, fd, 0, NoErrno, calls, oob)
    /\ UNCHANGED <<efs, heap, nodes>>

OpenFlags == {O_RDONLY, BitOr(O_WRONLY, O_CREAT)}

(***************************************************************************)
(* vfs_littlefs_open.                                                      *)
(***************************************************************************)
\* Lines 888-914: the engine's open on the record that was allocated, then
\* either the release of the descriptor or the record's hash and path.
open_engine(e, h, path, flags, fd, file, eng) ==
    LET lfs_flags == esp_littlefs_flags_conv(flags)
        res == lfs_file_open(e, nodes, path, lfs_flags, eng)
        f == esp_littlefs_free_fd(e, h, fd)
        mtime == BitAnd(lfs_flags, LFS_O_RDONLY) = 0
    IN  IF eng = "crash" THEN Crash("open", path, -1, {"lfs_file_open"}, FALSE)
        ELSE IF res < 0
        THEN IF f.crash THEN Crash("open", path, -1, {"lfs_file_open"}, FALSE)
             ELSE /\ efs' = f.e
                  /\ heap' = f.h
                  /\ last' = Outcome("open", path, EmptyPath, -1, -1, -res,
                                     {"lfs_file_open"}, FALSE)
                  /\ UNCHANGED <<nodes, crashed>>
        ELSE /\ efs' = e
             /\ heap' = [h EXCEPT ![file].hash = compute_hash(path),
                                  ![file].path = path]
             /\ nodes' = IF e.fs_mounted THEN [nodes EXCEPT ![path] = "reg"] ELSE nodes
             /\ last' = Outcome("open", path, EmptyPath, -1, fd, NoErrno,
                                IF mtime THEN {"lfs_file_open", "lfs_setattr"}
                                ELSE {"lfs_file_open"}, FALSE)
             /\ UNCHANGED crashed

vfs_littlefs_open(path, flags, cache_ok, file_ok, eng) ==
    LET a == esp_littlefs_allocate_fd(efs, heap, cache_ok, file_ok)
    IN  /\ ~crashed
        /\ efs.fd_count < Cardinality(DOMAIN heap)
        /\ HasFreeRecord(heap)
        /\ EngAllowed(efs, NULL, eng)
        /\ IF a.crash THEN Crash("open", path, -1, {}, FALSE)
           ELSE IF a.fd < 0
           THEN /\ efs' = a.e
                /\ last' = Outcome("open", path, EmptyPath, -1, -1, -LFS_ERR_INVAL, {}, FALSE)
                /\ UNCHANGED <<heap, nodes, crashed>>
           ELSE open_engine(a.e, a.h, path, flags, a.fd, a.file, eng)

(***************************************************************************)
(* The descriptor check of the entry points that take a descriptor:        *)
(* if((uint32_t)fd > efs->cache_size) -> EBADF.                            *)
(***************************************************************************)
fd_rejected(e, fd) == U32Greater(fd, e.cache_size)

Fds == (-1 .. MaxOpen) \cup {CONFIG_LITTLEFS_FD_CACHE_MIN_SIZE, CONFIG_LITTLEFS_FD_CACHE_MIN_SIZE + 1}
Garbage == {NULL, WILD}

(***************************************************************************)
(* vfs_littlefs_close.                                                     *)
(***************************************************************************)
vfs_littlefs_close(fd, garbage, eng) ==
    LET c == CacheRead(efs, fd, garbage)
        res == lfs_file_op(eng)
        f == esp_littlefs_free_fd(efs, heap, fd)
    IN  /\ ~crashed
        /\ EngAllowed(efs, c.val, eng)
        /\ IF fd_rejected(efs, fd)
           THEN /\ last' = Outcome("close", EmptyPath, EmptyPath, fd, -1, -LFS_ERR_BADF, {}, FALSE)
                /\ UNCHANGED <<efs, heap, nodes, crashed>>
           ELSE IF c.crash THEN Crash("close", EmptyPath, fd, {}, FALSE)
           ELSE IF c.val = NULL \/ eng = "crash"
           THEN Crash("close", EmptyPath, fd, {"lfs_file_close"}, c.oob)
           ELSE IF res < 0
           THEN /\ last' = Outcome("close", EmptyPath, EmptyPath, fd, -1, -res,
                                   {"lfs_file_close"}, c.oob)
                /\ UNCHANGED <<efs, heap, nodes, crashed>>
           ELSE IF f.crash THEN Crash("close", EmptyPath, fd, {"lfs_file_close"}, c.oob)
           ELSE /\ efs' = f.e
                /\ heap' = f.h
                /\ last' = Outcome("close", EmptyPath, EmptyPath, fd, 0, NoErrno,
                                   {"lfs_file_close"}, c.oob)
                /\ UNCHANGED <<nodes, crashed>>

(***************************************************************************)
(* vfs_littlefs_write, _read, _lseek, _fsync and _fstat: the descriptor    *)
(* check, the read of cache[fd], one engine call on the record (fstat:     *)
(* lfs_stat on the record's path, then the read of the mtime attribute).   *)
(***************************************************************************)
FdOps == {"write", "read", "lseek", "fsync", "fstat"}

EngineCallOf(op) ==
    CASE op = "write" -> {"lfs_file_write"}
      [] op = "read" -> {"lfs_file_read"}
      [] op = "lseek" -> {"lfs_file_seek"}
      [] op = "fsync" -> {"lfs_file_sync"}
      [] op = "fstat" -> {"lfs_stat"}

vfs_littlefs_fdop(op, fd, garbage, eng) ==
    LET c == CacheRead(efs, fd, garbage)
        res == lfs_file_op(eng)
    IN  /\ ~crashed
        /\ EngAllowed(efs, c.val, eng)
        /\ IF fd_rejected(efs, fd)
           THEN /\ last' = Outcome(op, EmptyPath, EmptyPath, fd, -1, -LFS_ERR_BADF, {}, FALSE)
                /\ UNCHANGED <<efs, heap, nodes, crashed>>
           ELSE IF c.crash THEN Crash(op, EmptyPath, fd, {}, FALSE)
           ELSE IF c.val = NULL \/ eng = "crash"
           THEN Crash(op, EmptyPath, fd, EngineCallOf(op), c.oob)
           ELSE IF res < 0
           THEN /\ last' = Outcome(op, EmptyPath, EmptyPath, fd, -1, -res,
                                   EngineCallOf(op), c.oob)
                /\ UNCHANGED <<efs, heap, nodes, crashed>>
           ELSE /\ last' = Outcome(op, EmptyPath, EmptyPath, fd, 0, NoErrno,
                                   IF op = "fstat" THEN {"lfs_stat", "lfs_getattr"}
                                   ELSE EngineCallOf(op), c.oob)
                /\ UNCHANGED <<efs, heap, nodes, crashed>>

(***************************************************************************)
(* vfs_littlefs_unlink.                                                    *)
(***************************************************************************)
vfs_littlefs_unlink(path, eng1, eng2) ==
    LET res == lfs_stat(efs, nodes, path, eng1)
        res2 == lfs_remove(efs, nodes, path, eng2)
    IN  /\ ~crashed
        /\ EngAllowed(efs, NULL, eng1)
        /\ EngAllowed(efs, NULL, eng2)
        /\ IF eng1 = "crash" THEN Crash("unlink", path, -1, {"lfs_stat"}, FALSE)
           ELSE IF res < 0
           THEN /\ last' = Outcome("unlink", path, EmptyPath, -1, -1, -res, {"lfs_stat"}, FALSE)
                /\ UNCHANGED <<efs, heap, nodes, crashed>>
           ELSE IF esp_littlefs_get_fd_by_name(efs, heap, path) >= 0
           THEN /\ last' = Outcome("unlink", path, EmptyPath, -1, -1, -res, {"lfs_stat"}, FALSE)
                /\ UNCHANGED <<efs, heap, nodes, crashed>>
           ELSE IF nodes[path] = "dir"
           THEN /\ last' = Outcome("unlink", path, EmptyPath, -1, -1, -LFS_ERR_ISDIR,
                                   {"lfs_stat"}, FALSE)
                /\ UNCHANGED <<efs, heap, nodes, crashed>>
           ELSE IF eng2 = "crash"
           THEN Crash("unlink", path, -1, {"lfs_stat", "lfs_remove"}, FALSE)
           ELSE IF res2 < 0
           THEN /\ last' = Outcome("unlink", path, EmptyPath, -1, -1, -res2,
                                   {"lfs_stat", "lfs_remove"}, FALSE)
                /\ UNCHANGED <<efs, heap, nodes, crashed>>
           ELSE /\ nodes' = [nodes EXCEPT ![path] = "none"]
                /\ last' = Outcome("unlink", path, EmptyPath, -1, 0, NoErrno,
                                   {"lfs_stat", "lfs_remove"}, FALSE)
                /\ UNCHANGED <<efs, heap, crashed>>

(***************************************************************************)
(* vfs_littlefs_rename.                                                    *)
(***************************************************************************)
vfs_littlefs_rename(src, dst, eng) ==
    LET res == lfs_rename(efs, nodes, src, dst, eng)
    IN  /\ ~crashed
        /\ EngAllowed(efs, NULL, eng)
        /\ IF esp_littlefs_get_fd_by_name(efs, heap, src) >= 0
           THEN /\ last' = Outcome("rename", src, dst, -1, -1, EBUSY, {}, FALSE)
                /\ UNCHANGED <<efs, heap, nodes, crashed>>
           ELSE IF esp_littlefs_get_fd_by_name(efs, heap, dst) >= 0
           THEN /\ last' = Outcome("rename", src, dst, -1, -1, EBUSY, {}, FALSE)
                /\ UNCHANGED <<efs, heap, nodes, crashed>>
           ELSE IF eng = "crash" THEN Crash("rename", src, -1, {"lfs_rename"}, FALSE)
           ELSE IF res < 0
           THEN /\ last' = Outcome("rename", src, dst, -1, -1, -res, {"lfs_rename"}, FALSE)
                /\ UNCHANGED <<efs, heap, nodes, crashed>>
           ELSE /\ nodes' = IF efs.fs_mounted /\ src # dst
                            THEN [nodes EXCEPT ![dst] = nodes[src], ![src] = "none"]
                            ELSE nodes
                /\ last' = Outcome("rename", src, dst, -1, 0, NoErrno, {"lfs_rename"}, FALSE)
                /\ UNCHANGED <<efs, heap, crashed>>

(***************************************************************************)
(* esp_littlefs_format, from the point where the volume context is at      *)
(* hand: unmount and release the descriptors if the volume was mounted,    *)
(* erase and format, mount again if it was mounted.  unmount_ok, format_ok *)
(* and mount_ok are the engine's results, cache_ok is low_calloc's.  The   *)
(* result holds the volume, the heap, the tree, the value returned and     *)
(* whether the function left through its exit label.                       *)
(***************************************************************************)
format_volume(e, h, n, unmount_ok, format_ok, mount_ok, cache_ok) ==
    LET was_mounted == e.cache_size > 0
        fr == esp_littlefs_free_fds(e, h)
        e1 == IF was_mounted THEN [fr.e EXCEPT !.fs_mounted = FALSE] ELSE e
        h1 == IF was_mounted THEN fr.h ELSE h
    IN  IF was_mounted /\ ~unmount_ok
        THEN [e |-> e, h |-> h, n |-> n, ret |-> ESP_FAIL, exit |-> FALSE]
        ELSE IF ~format_ok
        THEN [e |-> [e1 EXCEPT !.fs_mounted = FALSE], h |-> h1, n |-> EmptyTree,
              ret |-> ESP_FAIL, exit |-> FALSE]
        ELSE IF was_mounted /\ ~mount_ok
        THEN [e |-> [e1 EXCEPT !.fs_mounted = FALSE], h |-> h1, n |-> EmptyTree,
              ret |-> ESP_FAIL, exit |-> FALSE]
        ELSE IF was_mounted
        THEN [e |-> [e1 EXCEPT !.fs_mounted = TRUE,
                               !.cache_size = CONFIG_LITTLEFS_FD_CACHE_MIN_SIZE,
                               !.cache = IF cache_ok THEN Zeros(CONFIG_LITTLEFS_FD_CACHE_MIN_SIZE)
                                         ELSE <<>>,
                               !.cache_null = ~cache_ok],
              h |-> h1, n |-> EmptyTree, ret |-> ESP_OK, exit |-> TRUE]
        ELSE [e |-> [e1 EXCEPT !.fs_mounted = FALSE], h |-> h1, n |-> EmptyTree,
              ret |-> ESP_OK, exit |-> TRUE]

\* format of the variant whose volume is efs, with no other thread running.
FormatRegistered(unmount_ok, format_ok, mount_ok, cache_ok) ==
    LET r == format_volume(efs, heap, nodes, unmount_ok, format_ok, mount_ok, cache_ok)
    IN  /\ ~crashed
        /\ efs' = r.e
        /\ heap' = r.h
        /\ nodes' = r.n
        /\ last' = Outcome("format", EmptyPath, EmptyPath, -1, r.ret, NoErrno, {}, FALSE)
        /\ UNCHANGED crashed

(***************************************************************************)
(* Spec: the entry points of one registered, mounted volume, each as one   *)
(* step, and format of that volume.                                        *)
(***************************************************************************)
InitTree == [p \in Paths |-> IF p = PathA THEN "reg" ELSE IF p = PathD THEN "dir" ELSE "none"]

NoLocals ==
    [path |-> EmptyPath, flags |-> 0, fd |-> -1, file |-> NULL, was_mounted |-> FALSE,
     label |-> "", dont_mount |-> FALSE]

\* The registry before the first call of esp_vfs_littlefs_register.
RegInit ==
    /\ _efs = [i \in Slots |-> NullPtr]
    /\ _efs_lock = [created |-> FALSE, owner |-> 0, handle |-> NULL, made |-> 0, mux |-> 0]
    /\ vfs_paths = {}
    /\ leaked = FALSE
    /\ hung = FALSE

Unlocked == [owner |-> 0, count |-> 0]

Init ==
    /\ efs = MountedVolume("external")
    /\ heap = [r \in RecIds |-> FreedRecord]
    /\ nodes = InitTree
    /\ crashed = FALSE
    /\ last = NoOutcome
    /\ lock = Unlocked
    /\ pc = [t \in Threads |-> "idle"]
    /\ loc = [t \in Threads |-> NoLocals]
    /\ RegInit
    /\ dir = NoDir
    /\ attrs = NoAttrs

\* The outcomes the environment may choose for a handler's inputs: garbage
\* matters only when the read of cache[fd] leaves the array, the engine's
\* result only when the handler reaches the engine.
GarbageFor(fd) ==
    IF ~fd_rejected(efs, fd) /\ ~efs.cache_null /\ ~InCache(efs, fd) THEN Garbage ELSE {NULL}

EngFor(ptr) == {eng \in EngOutcomes : EngAllowed(efs, ptr, eng)}

EngForFd(fd, garbage) ==
    IF fd_rejected(efs, fd) \/ efs.cache_null THEN {"ok"}
    ELSE EngFor(CacheRead(efs, fd, garbage).val)

Open ==
    \E path \in FilePaths, flags \in OpenFlags, cache_ok \in BOOLEAN, file_ok \in BOOLEAN :
        \E eng \in (IF cache_ok /\ file_ok THEN EngFor(NULL) ELSE {"ok"}) :
            /\ vfs_littlefs_open(path, flags, cache_ok, file_ok, eng)
            /\ UNCHANGED <<mtVars, regVars, dir, attrs>>

Close ==
    \E fd \in Fds :
        \E garbage \in GarbageFor(fd) :
            \E eng \in EngForFd(fd, garbage) :
                /\ vfs_littlefs_close(fd, garbage, eng)
                /\ UNCHANGED <<mtVars, regVars, dir, attrs>>

FdOp ==
    \E op \in FdOps, fd \in Fds :
        \E garbage \in GarbageFor(fd) :
            \E eng \in EngForFd(fd, garbage) :
                /\ vfs_littlefs_fdop(op, fd, garbage, eng)
                /\ UNCHANGED <<mtVars, regVars, dir, attrs>>

Unlink ==
    \E path \in Paths :
        \E eng1 \in EngFor(NULL) :
            \E eng2 \in (IF eng1 = "ok" THEN EngFor(NULL) ELSE {"ok"}) :
                /\ vfs_littlefs_unlink(path, eng1, eng2)
                /\ UNCHANGED <<mtVars, regVars, dir, attrs>>

Rename ==
    \E src \in FilePaths, dst \in FilePaths :
        \E eng \in EngFor(NULL) :
            /\ vfs_littlefs_rename(src, dst, eng)
            /\ UNCHANGED <<mtVars, regVars, dir, attrs>>

Format ==
    \E unmount_ok \in BOOLEAN :
        \E format_ok \in (IF unmount_ok THEN BOOLEAN ELSE {TRUE}) :
            \E mount_ok \in (IF unmount_ok /\ format_ok THEN BOOLEAN ELSE {TRUE}) :
                \E cache_ok \in (IF unmount_ok /\ format_ok /\ mount_ok THEN BOOLEAN ELSE {TRUE}) :
                    /\ FormatRegistered(unmount_ok, format_ok, mount_ok, cache_ok)
                    /\ UNCHANGED <<mtVars, regVars, dir, attrs>>

Next == Open \/ Close \/ FdOp \/ Unlink \/ Rename \/ Format

vars == <<efs, heap, nodes, crashed, last, lock, pc, loc, _efs, _efs_lock, vfs_paths, leaked, hung, dir, attrs>>

Spec == Init /\ [][Next]_vars

(***************************************************************************)
(* SpecMtime: the modification time of a path on the mounted volume.       *)
(* utime stores a time_t with lfs_setattr, an open for writing stores the  *)
(* time of the clock, stat and fstat read it back through                  *)
(* vfs_littlefs_get_mtime.                                                 *)
(***************************************************************************)
TimeValues == 0 .. MaxTime

\* lfs_setattr(efs->fs, path, LITTLEFS_ATTR_MTIME, &t, sizeof(t)).
lfs_setattr(n, a, path, t, eng) ==
    IF eng = "err" THEN [res |-> LFS_ERR_IO, attrs |-> a]
    ELSE IF n[path] = "none" THEN [res |-> LFS_ERR_NOENT, attrs |-> a]
    ELSE [res |-> LFS_ERR_OK, attrs |-> [a EXCEPT ![path] = t]]

\* lfs_getattr(efs->fs, path, LITTLEFS_ATTR_MTIME, &t, sizeof(t)): the size
\* of the attribute or an error; t is the buffer afterwards (0 before).
lfs_getattr(n, a, path, eng) ==
    IF eng = "err" THEN [size |-> LFS_ERR_IO, t |-> 0]
    ELSE IF n[path] = "none" THEN [size |-> LFS_ERR_NOENT, t |-> 0]
    ELSE IF a[path] = NoAttr THEN [size |-> LFS_ERR_NOATTR, t |-> 0]
    ELSE [size |-> SIZEOF_TIME_T, t |-> a[path]]

\* vfs_littlefs_update_mtime_value.
vfs_littlefs_update_mtime_value(n, a, path, t, eng) ==
    LET r == lfs_setattr(n, a, path, t, eng)
    IN  IF r.res < 0 THEN [ret |-> -1, err |-> -r.res, attrs |-> r.attrs]
        ELSE [ret |-> 0, err |-> NoErrno, attrs |-> r.attrs]

\* vfs_littlefs_utime: t is times->modtime, or the clock when times is null.
vfs_littlefs_utime(n, a, path, t, eng) == vfs_littlefs_update_mtime_value(n, a, path, t, eng)

\* vfs_littlefs_get_mtime: -1 and errno on an error, else the variable size.
vfs_littlefs_get_mtime(n, a, path, eng) ==
    LET g == lfs_getattr(n, a, path, eng)
    IN  IF g.size < 0 THEN [ret |-> -1, err |-> -g.size]
        ELSE [ret |-> g.size, err |-> NoErrno]

\* vfs_littlefs_stat and, with the path of the descriptor's record,
\* vfs_littlefs_fstat: args holds st_mtime when the call succeeded.
stat_outcome(op, path, fd, eng1, eng2) ==
    LET res == lfs_stat(efs, nodes, path, eng1)
        m == vfs_littlefs_get_mtime(nodes, attrs, path, eng2)
    IN  IF res < 0
        THEN Outcome(op, path, EmptyPath, fd, -1, -res, {"lfs_stat"}, FALSE)
        ELSE [Outcome(op, path, EmptyPath, fd, 0, m.err, {"lfs_stat", "lfs_getattr"}, FALSE)
                 EXCEPT !.args = {m.ret}]

MtimeUnchanged == UNCHANGED <<mtVars, regVars, dir>>

\* vfs_littlefs_open; an open for writing ends with
\* vfs_littlefs_update_mtime, whose result is dropped.
MtimeOpen ==
    \E path \in FilePaths, flags \in OpenFlags, now \in TimeValues :
        \E eng \in {"ok", "err"}, eng2 \in {"ok", "err"} :
            /\ vfs_littlefs_open(path, flags, TRUE, TRUE, eng)
            /\ attrs' = IF "lfs_setattr" \in last'.calls
                        THEN vfs_littlefs_utime(nodes', attrs, path, now, eng2).attrs
                        ELSE attrs
            /\ MtimeUnchanged

MtimeClose ==
    \E fd \in Fds :
        /\ SlotBound(efs, fd)
        /\ vfs_littlefs_close(fd, NULL, "ok")
        /\ UNCHANGED attrs
        /\ MtimeUnchanged

\* vfs_littlefs_utime with times->modtime = t; args holds t.
MtimeUtime ==
    \E path \in FilePaths, t \in TimeValues, eng \in {"ok", "err"} :
        LET r == vfs_littlefs_utime(nodes, attrs, path, t, eng)
        IN  /\ ~crashed
            /\ attrs' = r.attrs
            /\ last' = [Outcome("utime", path, EmptyPath, -1, r.ret, r.err,
                                {"lfs_setattr"}, FALSE) EXCEPT !.args = {t}]
            /\ UNCHANGED <<efs, heap, nodes, crashed>>
            /\ MtimeUnchanged

MtimeStat ==
    \E path \in FilePaths, eng1 \in {"ok", "err"}, eng2 \in {"ok", "err"} :
        /\ ~crashed
        /\ last' = stat_outcome("stat", path, -1, eng1, eng2)
        /\ UNCHANGED <<efs, heap, nodes, crashed, attrs>>
        /\ MtimeUnchanged

MtimeFstat ==
    \E fd \in Fds, eng1 \in {"ok", "err"}, eng2 \in {"ok", "err"} :
        /\ ~crashed
        /\ SlotBound(efs, fd)
        /\ last' = stat_outcome("fstat", heap[efs.cache[fd + 1]].path, fd, eng1, eng2)
        /\ UNCHANGED <<efs, heap, nodes, crashed, attrs>>
        /\ MtimeUnchanged

NextMtime == MtimeOpen \/ MtimeClose \/ MtimeUtime \/ MtimeStat \/ MtimeFstat

SpecMtime == Init /\ [][NextMtime]_vars

(***************************************************************************)
(* SpecInconsistent: open and close on a volume whose bookkeeping a fault  *)
(* has damaged: every bound slot holds a live record, and the open-file    *)
(* list holds some of these records, not necessarily all.  This is the     *)
(* input of the "Inconsistent list" branch of esp_littlefs_free_fd.        *)
(***************************************************************************)
\* The caches of minimum size that bind each record to at most one slot.
BoundCaches ==
    {c \in [1 .. CONFIG_LITTLEFS_FD_CACHE_MIN_SIZE -> {NULL} \cup RecIds] :
        \A i, j \in DOMAIN c : (i # j /\ c[i] # NULL) => c[i] # c[j]}

\* The lists of distinct records taken from the set recs.
ListsOver(recs) ==
    {l \in UNION {[1 .. n -> recs] : n \in 0 .. Cardinality(recs)} :
        \A i, j \in DOMAIN l : i # j => l[i] # l[j]}

OpenRecord == [live |-> TRUE, hash |-> compute_hash(PathA), path |-> PathA]

InitInconsistent ==
    /\ \E c \in BoundCaches :
           LET recs == {c[i] : i \in DOMAIN c} \ {NULL}
           IN  /\ \E l \in ListsOver(recs) :
                      efs = [MountedVolume("external") EXCEPT
                                !.cache = c, !.file = l, !.fd_count = Cardinality(recs)]
               /\ heap = [r \in RecIds |-> IF r \in recs THEN OpenRecord ELSE FreedRecord]
    /\ nodes = InitTree
    /\ crashed = FALSE
    /\ last = NoOutcome
    /\ lock = Unlocked
    /\ pc = [t \in Threads |-> "idle"]
    /\ loc = [t \in Threads |-> NoLocals]
    /\ RegInit
    /\ dir = NoDir
    /\ attrs = NoAttrs

NextInconsistent == Open \/ Close

SpecInconsistent == InitInconsistent /\ [][NextInconsistent]_vars

(***************************************************************************)
(* SpecAlloc: open, close and format of one volume with enough OpenFile    *)
(* records to fill the cache and make it grow.  The calls name one path.   *)
(***************************************************************************)
AllocRecIds == 1 .. MaxAlloc
AllocFds == 0 .. MaxAlloc - 1

InitAlloc ==
    /\ efs = MountedVolume("external")
    /\ heap = [r \in AllocRecIds |-> FreedRecord]
    /\ nodes = InitTree
    /\ crashed = FALSE
    /\ last = NoOutcome
    /\ lock = Unlocked
    /\ pc = [t \in Threads |-> "idle"]
    /\ loc = [t \in Threads |-> NoLocals]
    /\ RegInit
    /\ dir = NoDir
    /\ attrs = NoAttrs

AllocOpen ==
    \E cache_ok \in BOOLEAN, file_ok \in BOOLEAN :
        \E eng \in (IF cache_ok /\ file_ok THEN EngFor(NULL) ELSE {"ok"}) :
            /\ vfs_littlefs_open(PathA, O_RDONLY, cache_ok, file_ok, eng)
            /\ UNCHANGED <<mtVars, regVars, dir, attrs>>

AllocClose ==
    \E fd \in AllocFds :
        \E garbage \in GarbageFor(fd) :
            \E eng \in EngForFd(fd, garbage) \ {"err"} :
                /\ vfs_littlefs_close(fd, garbage, eng)
                /\ UNCHANGED <<mtVars, regVars, dir, attrs>>

NextAlloc == AllocOpen \/ AllocClose \/ Format

SpecAlloc == InitAlloc /\ [][NextAlloc]_vars

(***************************************************************************)
(* SpecFind: open, close and unlink on paths of which two have the same    *)
(* DJB2 hash, "/aa" and "/b@" (33 * 97 + 97 = 33 * 98 + 64).  unlink looks *)
(* the path up among the open files.                                       *)
(***************************************************************************)
PathAA == <<47, 97, 97>>
PathBAt == <<47, 98, 64>>
FindPaths == {PathA, PathAA, PathBAt}
FindRecIds == 1 .. MaxFind
FindFds == 0 .. MaxFind - 1

InitFind ==
    /\ efs \in {MountedVolume("external"), UnmountedVolume("external")}
    /\ heap = [r \in FindRecIds |-> FreedRecord]
    /\ nodes = [p \in FindPaths |-> "reg"]
    /\ crashed = FALSE
    /\ last = NoOutcome
    /\ lock = Unlocked
    /\ pc = [t \in Threads |-> "idle"]
    /\ loc = [t \in Threads |-> NoLocals]
    /\ RegInit
    /\ dir = NoDir
    /\ attrs = NoAttrs

FindOpen ==
    \E path \in FindPaths, flags \in OpenFlags :
        \E eng \in EngFor(NULL) \ {"crash"} :
            /\ vfs_littlefs_open(path, flags, TRUE, TRUE, eng)
            /\ UNCHANGED <<mtVars, regVars, dir, attrs>>

FindClose ==
    \E fd \in FindFds :
        /\ SlotBound(efs, fd)
        /\ vfs_littlefs_close(fd, NULL, "ok")
        /\ UNCHANGED <<mtVars, regVars, dir, attrs>>

FindUnlink ==
    \E path \in FindPaths :
        \E eng \in EngFor(NULL) \ {"crash"} :
            /\ vfs_littlefs_unlink(path, "ok", eng)
            /\ UNCHANGED <<mtVars, regVars, dir, attrs>>

NextFind == FindOpen \/ FindClose \/ FindUnlink

SpecFind == InitFind /\ [][NextFind]_vars

(***************************************************************************)
(* SpecDir: one directory stream of the volume: opendir on a directory of  *)
(* any content, readdir, seekdir, telldir, closedir.  Each lfs_dir_read,   *)
(* lfs_dir_rewind and lfs_dir_close may return an error.                   *)
(***************************************************************************)
DirUnchanged == UNCHANGED <<efs, heap, nodes, crashed, mtVars, regVars, attrs>>

DirOutcome(op, ret, err, calls) ==
    Outcome(op, PathD, EmptyPath, -1, ret, err, calls, FALSE)

\* vfs_littlefs_opendir: fail names the step that fails: low_calloc,
\* strdup, lfs_dir_open, or none.  Every failure goes to exit and returns a
\* null pointer (ret -1 here) without an assignment of errno; args holds
\* "engine_error" when lfs_dir_open returned an error.
DirOpen ==
    \E c \in DirContents, fail \in {"none", "low_calloc", "strdup", "lfs_dir_open"} :
        /\ ~dir.open
        /\ dir' = IF fail = "none" THEN OpenedDir(c) ELSE dir
        /\ last' = [DirOutcome("opendir", IF fail = "none" THEN 0 ELSE -1, NoErrno,
                               IF fail \in {"none", "lfs_dir_open"}
                               THEN {"lfs_dir_open"} ELSE {})
                       EXCEPT !.args = IF fail = "lfs_dir_open"
                                       THEN {"engine_error"} ELSE {}]
        /\ DirUnchanged

\* vfs_littlefs_readdir; args holds "entry" when an entry was returned and
\* "engine_error" when lfs_dir_read returned an error.
DirRead ==
    \E fail_at \in 0 .. 3 :
        LET r == vfs_littlefs_readdir(dir, fail_at)
        IN  /\ dir.open
            /\ dir.offset < MaxOffset
            /\ dir' = r.d
            /\ last' = [DirOutcome("readdir", r.ret, r.err, {"lfs_dir_read"})
                           EXCEPT !.args = IF r.out_dirent # NullPtr THEN {"entry"}
                                           ELSE IF r.ret < 0 THEN {"engine_error"}
                                           ELSE {}]
            /\ DirUnchanged

DirSeek ==
    \E offset \in 0 .. MaxOffset, rewind_ok \in BOOLEAN, fails \in 0 .. 2 :
        /\ dir.open
        /\ dir' = vfs_littlefs_seekdir(dir, offset, rewind_ok, fails)
        /\ last' = [DirOutcome("seekdir", 0, NoErrno, {"lfs_dir_rewind", "lfs_dir_read"})
                       EXCEPT !.fd = offset,
                              !.args = IF offset < dir.offset THEN {"rewind"} ELSE {}]
        /\ DirUnchanged

DirTell ==
    /\ dir.open
    /\ last' = DirOutcome("telldir", vfs_littlefs_telldir(dir), NoErrno, {})
    /\ UNCHANGED dir
    /\ DirUnchanged

\* vfs_littlefs_closedir: the stream is freed when lfs_dir_close succeeded.
DirClose ==
    \E ok \in BOOLEAN :
        /\ dir.open
        /\ dir' = IF ok THEN NoDir ELSE dir
        /\ last' = [DirOutcome("closedir", IF ok THEN 0 ELSE -1,
                               IF ok THEN NoErrno ELSE -LFS_ERR_IO, {"lfs_dir_close"})
                       EXCEPT !.args = IF ok THEN {} ELSE {"engine_error"}]
        /\ DirUnchanged

NextDir == DirOpen \/ DirRead \/ DirSeek \/ DirTell \/ DirClose

SpecDir == Init /\ [][NextDir]_vars

(***************************************************************************)
(* SpecSeek: vfs_littlefs_seekdir cut at the iterations of its replay      *)
(* loop, run by thread 1 next to opendir and closedir.  While the          *)
(* thread is in the loop, loc[1].fd holds the target offset.               *)
(***************************************************************************)
SeekIdle == pc[1] = "idle"

SeekFrame == UNCHANGED <<efs, heap, nodes, crashed, lock, regVars, attrs>>

SeekOpen == SeekIdle /\ DirOpen

SeekClose == SeekIdle /\ DirClose

\* Lines 1364-1375: the rewind of a backward seek; the call returns when
\* lfs_dir_rewind fails.
SeekStart ==
    \E offset \in 0 .. MaxOffset, rewind_ok \in BOOLEAN :
        /\ SeekIdle
        /\ dir.open
        /\ IF offset < dir.offset /\ ~rewind_ok
           THEN /\ last' = [DirOutcome("seekdir", 0, NoErrno, {"lfs_dir_rewind"})
                               EXCEPT !.fd = offset, !.args = {"rewind"}]
                /\ UNCHANGED <<dir, pc, loc>>
           ELSE /\ dir' = IF offset < dir.offset
                          THEN [dir EXCEPT !.pos = 0, !.offset = 0] ELSE dir
                /\ pc' = [pc EXCEPT ![1] = "seek_loop"]
                /\ loc' = [loc EXCEPT ![1].fd = offset]
                /\ UNCHANGED last
        /\ SeekFrame

\* Lines 1377-1384: the test of the loop and one vfs_littlefs_readdir_r.
\* fail_at numbers the lfs_dir_read of this iteration that returns an
\* error (0: none).
SeekStep(fail_at) ==
    \E r \in {vfs_littlefs_readdir_r(dir, fail_at)} :
        LET offset == loc[1].fd
            done == [DirOutcome("seekdir", 0, NoErrno, {"lfs_dir_read"})
                        EXCEPT !.fd = offset]
        IN  /\ pc[1] = "seek_loop"
            /\ IF ~(dir.offset < offset)
               THEN /\ last' = done
                    /\ pc' = [pc EXCEPT ![1] = "idle"]
                    /\ loc' = [loc EXCEPT ![1] = NoLocals]
                    /\ UNCHANGED dir
               ELSE /\ dir' = r.d
                    /\ IF r.ret # 0
                       THEN /\ last' = [done EXCEPT !.args = {"engine_error"}]
                            /\ pc' = [pc EXCEPT ![1] = "idle"]
                            /\ loc' = [loc EXCEPT ![1] = NoLocals]
                       ELSE UNCHANGED <<last, pc, loc>>
            /\ SeekFrame

SeekIterate == \E fail_at \in 0 .. 3 : SeekStep(fail_at)

NextSeek == SeekOpen \/ SeekClose \/ SeekStart \/ SeekIterate

\* The fairness is that of the iterations whose engine calls succeed: the
\* thread keeps running, and nothing makes the engine fail.
SpecSeek == Init /\ [][NextSeek]_vars /\ WF_vars(SeekStep(0))

(***************************************************************************)
(* Threads.  Each entry point is a sequence of steps of the calling        *)
(* thread: sem_take, the accesses made while the lock is held, sem_give.   *)
(***************************************************************************)
\* A take that never waits.
sem_take_no_wait(t) == TRUE

\* A take of a mutex that is not recursive: it waits while anyone owns it.
sem_take_not_recursive(t) == lock.owner = 0

\* xSemaphoreTakeRecursive(efs->lock, portMAX_DELAY) returns for thread t
\* when the mutex is free or t owns it.
sem_take_ready(t) == lock.owner \in {0, t}

sem_take(t) ==
    /\ sem_take_ready(t)
    /\ lock' = [owner |-> t, count |-> IF lock.owner = t THEN lock.count + 1 ELSE 1]

sem_give(t) ==
    lock' = IF lock.owner = t /\ lock.count > 1
            THEN [lock EXCEPT !.count = @ - 1]
            ELSE IF lock.owner = t THEN Unlocked ELSE lock

Goto(t, label) == pc' = [pc EXCEPT ![t] = label]

Return(t) ==
    /\ pc' = [pc EXCEPT ![t] = "idle"]
    /\ loc' = [loc EXCEPT ![t] = NoLocals]

\* vfs_littlefs_open, line 875.
T_open_take(t, path, flags) ==
    /\ ~crashed
    /\ pc[t] = "idle"
    /\ sem_take(t)
    /\ Goto(t, "open_alloc")
    /\ loc' = [loc EXCEPT ![t] = [NoLocals EXCEPT !.path = path, !.flags = flags]]
    /\ UNCHANGED volVars

\* esp_littlefs_allocate_fd up to the slot it found, lines 682-724.
T_open_alloc(t, cache_ok, file_ok) ==
    LET a == alloc_find(efs, heap, cache_ok, file_ok)
    IN  /\ ~crashed
        /\ pc[t] = "open_alloc"
        /\ efs.fd_count < MaxOpen
        /\ HasFreeRecord(heap)
        /\ IF a.crash
           THEN /\ Crash("open", loc[t].path, -1, {}, FALSE)
                /\ UNCHANGED mtVars
           ELSE IF a.fd < 0
           THEN /\ efs' = a.e
                /\ last' = Outcome("open", loc[t].path, EmptyPath, -1, -1, -LFS_ERR_INVAL,
                                   {}, FALSE)
                /\ sem_give(t)
                /\ Return(t)
                /\ UNCHANGED <<heap, nodes, crashed>>
           ELSE /\ efs' = a.e
                /\ heap' = a.h
                /\ loc' = [loc EXCEPT ![t].fd = a.fd, ![t].file = a.file]
                /\ Goto(t, "open_bind")
                /\ UNCHANGED <<nodes, crashed, last, lock>>

\* esp_littlefs_allocate_fd, lines 725-733: the slot, the list, the count.
T_open_bind(t) ==
    /\ ~crashed
    /\ pc[t] = "open_bind"
    /\ IF efs.cache_null /\ efs.cache_size > 0
       THEN /\ Crash("open", loc[t].path, -1, {}, FALSE)
            /\ UNCHANGED mtVars
       ELSE /\ efs' = alloc_bind(efs, loc[t].fd, loc[t].file)
            /\ Goto(t, "open_engine")
            /\ UNCHANGED <<heap, nodes, crashed, last, lock, loc>>

\* vfs_littlefs_open, lines 888-914.
T_open_engine(t, eng) ==
    /\ ~crashed
    /\ pc[t] = "open_engine"
    /\ EngAllowed(efs, NULL, eng)
    /\ open_engine(efs, heap, loc[t].path, loc[t].flags, loc[t].fd, loc[t].file, eng)
    /\ sem_give(t)
    /\ Return(t)

\* vfs_littlefs_close, line 986.
T_close_take(t, fd) ==
    /\ ~crashed
    /\ pc[t] = "idle"
    /\ sem_take(t)
    /\ Goto(t, "close_body")
    /\ loc' = [loc EXCEPT ![t] = [NoLocals EXCEPT !.fd = fd]]
    /\ UNCHANGED volVars

\* vfs_littlefs_close, lines 987-1009.
T_close_body(t, garbage, eng) ==
    /\ pc[t] = "close_body"
    /\ vfs_littlefs_close(loc[t].fd, garbage, eng)
    /\ sem_give(t)
    /\ Return(t)

\* vfs_littlefs_read, line 954.
T_read_take(t, fd) ==
    /\ ~crashed
    /\ pc[t] = "idle"
    /\ sem_take(t)
    /\ Goto(t, "read_body")
    /\ loc' = [loc EXCEPT ![t] = [NoLocals EXCEPT !.fd = fd]]
    /\ UNCHANGED volVars

\* vfs_littlefs_read, lines 955-977.
T_read_body(t, garbage, eng) ==
    /\ pc[t] = "read_body"
    /\ vfs_littlefs_fdop("read", loc[t].fd, garbage, eng)
    /\ sem_give(t)
    /\ Return(t)

MTFds == 0 .. MaxOpen - 1
MTPaths == {PathA}

ThreadOpen ==
    \E t \in Threads :
        /\ \/ \E path \in MTPaths, flags \in OpenFlags : T_open_take(t, path, flags)
           \/ \E cache_ok \in BOOLEAN, file_ok \in BOOLEAN : T_open_alloc(t, cache_ok, file_ok)
           \/ T_open_bind(t)
           \/ \E eng \in EngFor(NULL) : T_open_engine(t, eng)
        /\ UNCHANGED <<regVars, dir, attrs>>

ThreadClose ==
    \E t \in Threads :
        /\ \/ \E fd \in MTFds : T_close_take(t, fd)
           \/ \E garbage \in GarbageFor(loc[t].fd) :
                  \E eng \in EngForFd(loc[t].fd, garbage) : T_close_body(t, garbage, eng)
        /\ UNCHANGED <<regVars, dir, attrs>>

ThreadRead ==
    \E t \in Threads :
        /\ \/ \E fd \in MTFds : T_read_take(t, fd)
           \/ \E garbage \in GarbageFor(loc[t].fd) :
                  \E eng \in EngForFd(loc[t].fd, garbage) : T_read_body(t, garbage, eng)
        /\ UNCHANGED <<regVars, dir, attrs>>

NextMT == ThreadOpen \/ ThreadClose \/ ThreadRead

\* SpecMT: threads that open, close and read on one volume, which is either
\* mounted or registered with mounting suppressed.
InitMT ==
    /\ efs \in {MountedVolume("external"), UnmountedVolume("external")}
    /\ heap = [r \in RecIds |-> FreedRecord]
    /\ nodes = InitTree
    /\ crashed = FALSE
    /\ last = NoOutcome
    /\ lock = Unlocked
    /\ pc = [t \in Threads |-> "idle"]
    /\ loc = [t \in Threads |-> NoLocals]
    /\ RegInit
    /\ dir = NoDir
    /\ attrs = NoAttrs

SpecMT == InitMT /\ [][NextMT]_vars

(***************************************************************************)
(* SpecReenter: open and fstat cut at every sem_take and sem_give they     *)
(* make, those of the modification-time helpers they call while they hold  *)
(* the lock included (CONFIG_LITTLEFS_USE_MTIME), next to close.           *)
(***************************************************************************)
\* vfs_littlefs_open, lines 888-910: the engine's open; a file opened for
\* writing goes on to vfs_littlefs_update_mtime with the lock held.
T_open_stamp(t, eng) ==
    /\ ~crashed
    /\ pc[t] = "open_engine"
    /\ EngAllowed(efs, NULL, eng)
    /\ open_engine(efs, heap, loc[t].path, loc[t].flags, loc[t].fd, loc[t].file, eng)
    /\ IF crashed' THEN UNCHANGED mtVars
       ELSE IF "lfs_setattr" \in last'.calls
       THEN Goto(t, "utime_take") /\ UNCHANGED <<lock, loc>>
       ELSE sem_give(t) /\ Return(t)

\* vfs_littlefs_update_mtime_value, line 1448: sem_take inside open.
T_utime_take(t) ==
    /\ ~crashed
    /\ pc[t] = "utime_take"
    /\ sem_take(t)
    /\ Goto(t, "utime_set")
    /\ UNCHANGED <<volVars, loc>>

\* Lines 1449-1451: lfs_setattr and sem_give.
T_utime_set(t) ==
    /\ ~crashed
    /\ pc[t] = "utime_set"
    /\ sem_give(t)
    /\ Goto(t, "open_give")
    /\ UNCHANGED <<volVars, loc>>

\* vfs_littlefs_open, lines 912-914.
T_open_give(t) ==
    /\ ~crashed
    /\ pc[t] = "open_give"
    /\ sem_give(t)
    /\ Return(t)
    /\ UNCHANGED volVars

\* vfs_littlefs_fstat, line 1097.
T_fstat_take(t, fd) ==
    /\ ~crashed
    /\ pc[t] = "idle"
    /\ sem_take(t)
    /\ Goto(t, "fstat_body")
    /\ loc' = [loc EXCEPT ![t] = [NoLocals EXCEPT !.fd = fd]]
    /\ UNCHANGED volVars

\* Lines 1098-1114: the descriptor check and lfs_stat; a successful lookup
\* goes on to vfs_littlefs_get_mtime with the lock held.
T_fstat_body(t, garbage, eng) ==
    /\ pc[t] = "fstat_body"
    /\ vfs_littlefs_fdop("fstat", loc[t].fd, garbage, eng)
    /\ IF crashed' THEN UNCHANGED mtVars
       ELSE IF last'.ret = 0
       THEN Goto(t, "get_mtime_take") /\ UNCHANGED <<lock, loc>>
       ELSE sem_give(t) /\ Return(t)

\* vfs_littlefs_get_mtime, line 1502: sem_take inside fstat.
T_get_mtime_take(t) ==
    /\ ~crashed
    /\ pc[t] = "get_mtime_take"
    /\ sem_take(t)
    /\ Goto(t, "get_mtime")
    /\ UNCHANGED <<volVars, loc>>

\* Lines 1503-1505: lfs_getattr and sem_give.
T_get_mtime(t) ==
    /\ ~crashed
    /\ pc[t] = "get_mtime"
    /\ sem_give(t)
    /\ Goto(t, "fstat_give")
    /\ UNCHANGED <<volVars, loc>>

\* vfs_littlefs_fstat, lines 1119-1123.
T_fstat_give(t) ==
    /\ ~crashed
    /\ pc[t] = "fstat_give"
    /\ sem_give(t)
    /\ Return(t)
    /\ UNCHANGED volVars

ThreadOpenStamp ==
    \E t \in Threads :
        /\ \/ \E path \in MTPaths, flags \in OpenFlags : T_open_take(t, path, flags)
           \/ \E cache_ok \in BOOLEAN, file_ok \in BOOLEAN : T_open_alloc(t, cache_ok, file_ok)
           \/ T_open_bind(t)
           \/ \E eng \in EngFor(NULL) : T_open_stamp(t, eng)
           \/ T_utime_take(t)
           \/ T_utime_set(t)
           \/ T_open_give(t)
        /\ UNCHANGED <<regVars, dir, attrs>>

ThreadFstat ==
    \E t \in Threads :
        /\ \/ \E fd \in MTFds : T_fstat_take(t, fd)
           \/ \E garbage \in GarbageFor(loc[t].fd) :
                  \E eng \in EngForFd(loc[t].fd, garbage) : T_fstat_body(t, garbage, eng)
           \/ T_get_mtime_take(t)
           \/ T_get_mtime(t)
           \/ T_fstat_give(t)
        /\ UNCHANGED <<regVars, dir, attrs>>

NextReenter == ThreadOpenStamp \/ ThreadFstat \/ ThreadClose

SpecReenter == InitMT /\ [][NextReenter]_vars

(***************************************************************************)
(* SpecFlags: open calls with every combination of the fcntl flags that    *)
(* esp_littlefs_flags_conv looks at, and close.                            *)
(***************************************************************************)
FlagBits == {O_WRONLY, O_RDWR, O_APPEND, O_CREAT, O_TRUNC, O_EXCL}

RECURSIVE OrAll(_)
OrAll(S) ==
    IF S = {} THEN 0
    ELSE LET b == CHOOSE x \in S : TRUE IN BitOr(b, OrAll(S \ {b}))

FlagValues == {OrAll(S) : S \in SUBSET FlagBits}

ThreadOpenFlags ==
    \E t \in Threads :
        /\ \/ \E path \in MTPaths, flags \in FlagValues : T_open_take(t, path, flags)
           \/ \E cache_ok \in BOOLEAN, file_ok \in BOOLEAN : T_open_alloc(t, cache_ok, file_ok)
           \/ T_open_bind(t)
           \/ \E eng \in EngFor(NULL) : T_open_engine(t, eng)
        /\ UNCHANGED <<regVars, dir, attrs>>

NextFlags == ThreadOpenFlags \/ ThreadClose

SpecFlags == InitMT /\ [][NextFlags]_vars

(***************************************************************************)
(* SpecRace: the threads of SpecMT, and threads that call stat and         *)
(* esp_littlefs_format on the same volume.                                 *)
(***************************************************************************)
FormatReturn(t, ret) ==
    /\ last' = Outcome("format", EmptyPath, EmptyPath, -1, ret, NoErrno, {}, FALSE)
    /\ Return(t)

\* esp_littlefs_format, lines 233-258: the context of the label is found.
T_fmt_enter(t) ==
    /\ ~crashed
    /\ pc[t] = "idle"
    /\ Goto(t, "fmt_unmount")
    /\ UNCHANGED <<efs, heap, nodes, crashed, last, lock, loc>>

\* Lines 261-269.
T_fmt_unmount(t, unmount_ok) ==
    /\ ~crashed
    /\ pc[t] = "fmt_unmount"
    /\ IF efs.cache_size > 0 /\ ~unmount_ok
       THEN /\ FormatReturn(t, ESP_FAIL)
            /\ UNCHANGED <<efs, heap, nodes, crashed, lock>>
       ELSE IF efs.cache_size > 0
       THEN /\ efs' = [efs EXCEPT !.fs_mounted = FALSE]
            /\ loc' = [loc EXCEPT ![t].was_mounted = TRUE]
            /\ Goto(t, "fmt_free")
            /\ UNCHANGED <<heap, nodes, crashed, last, lock>>
       ELSE /\ Goto(t, "fmt_format")
            /\ UNCHANGED <<efs, heap, nodes, crashed, last, lock, loc>>

\* Line 270.
T_fmt_free(t) ==
    LET fr == esp_littlefs_free_fds(efs, heap)
    IN  /\ ~crashed
        /\ pc[t] = "fmt_free"
        /\ efs' = fr.e
        /\ heap' = fr.h
        /\ Goto(t, "fmt_format")
        /\ UNCHANGED <<nodes, crashed, last, lock, loc>>

\* Lines 274-288.
T_fmt_format(t, format_ok) ==
    /\ ~crashed
    /\ pc[t] = "fmt_format"
    /\ nodes' = EmptyTree
    /\ efs' = [efs EXCEPT !.fs_mounted = FALSE]
    /\ IF format_ok
       THEN /\ Goto(t, "fmt_mount")
            /\ UNCHANGED <<last, loc>>
       ELSE FormatReturn(t, ESP_FAIL)
    /\ UNCHANGED <<heap, crashed, lock>>

\* Lines 291-309.
T_fmt_mount(t, mount_ok, cache_ok) ==
    /\ ~crashed
    /\ pc[t] = "fmt_mount"
    /\ IF loc[t].was_mounted /\ ~mount_ok
       THEN /\ FormatReturn(t, ESP_FAIL)
            /\ UNCHANGED efs
       ELSE IF loc[t].was_mounted
       THEN /\ efs' = [efs EXCEPT !.fs_mounted = TRUE,
                                  !.cache_size = CONFIG_LITTLEFS_FD_CACHE_MIN_SIZE,
                                  !.cache = IF cache_ok
                                            THEN Zeros(CONFIG_LITTLEFS_FD_CACHE_MIN_SIZE)
                                            ELSE <<>>,
                                  !.cache_null = ~cache_ok]
            /\ FormatReturn(t, ESP_OK)
       ELSE /\ FormatReturn(t, ESP_OK)
            /\ UNCHANGED efs
    /\ UNCHANGED <<heap, nodes, crashed, lock>>

\* vfs_littlefs_stat, line 1136.
T_stat_take(t, path) ==
    /\ ~crashed
    /\ pc[t] = "idle"
    /\ sem_take(t)
    /\ Goto(t, "stat_lookup")
    /\ loc' = [loc EXCEPT ![t] = [NoLocals EXCEPT !.path = path]]
    /\ UNCHANGED volVars

\* Lines 1137-1147: the lookup, sem_give, the result of the lookup.
T_stat_lookup(t, eng) ==
    LET res == lfs_stat(efs, nodes, loc[t].path, eng)
    IN  /\ ~crashed
        /\ pc[t] = "stat_lookup"
        /\ EngAllowed(efs, NULL, eng)
        /\ IF eng = "crash"
           THEN /\ Crash("stat", loc[t].path, -1, {"lfs_stat"}, FALSE)
                /\ UNCHANGED mtVars
           ELSE IF res < 0
           THEN /\ last' = Outcome("stat", loc[t].path, EmptyPath, -1, -1, -res,
                                   {"lfs_stat"}, FALSE)
                /\ sem_give(t)
                /\ Return(t)
                /\ UNCHANGED <<efs, heap, nodes, crashed>>
           ELSE /\ sem_give(t)
                /\ Goto(t, "stat_gap")
                /\ UNCHANGED <<efs, heap, nodes, crashed, last, loc>>

\* vfs_littlefs_get_mtime called at line 1149: sem_take at line 1502.
T_stat_mtime_take(t) ==
    /\ ~crashed
    /\ pc[t] = "stat_gap"
    /\ sem_take(t)
    /\ Goto(t, "stat_mtime")
    /\ UNCHANGED <<efs, heap, nodes, crashed, last, loc>>

\* Lines 1503-1516 and 1151-1152.
T_stat_mtime(t, eng) ==
    /\ ~crashed
    /\ pc[t] = "stat_mtime"
    /\ EngAllowed(efs, NULL, eng)
    /\ IF eng = "crash"
       THEN /\ Crash("stat", loc[t].path, -1, {"lfs_stat", "lfs_getattr"}, FALSE)
            /\ UNCHANGED mtVars
       ELSE /\ last' = Outcome("stat", loc[t].path, EmptyPath, -1, 0,
                               IF eng = "err" THEN -LFS_ERR_IO
                               ELSE IF efs.fs_mounted /\ nodes[loc[t].path] = "none"
                               THEN -LFS_ERR_NOENT ELSE NoErrno,
                               {"lfs_stat", "lfs_getattr"}, FALSE)
            /\ sem_give(t)
            /\ Return(t)
            /\ UNCHANGED <<efs, heap, nodes, crashed>>

ThreadFormat ==
    \E t \in Threads :
        /\ \/ T_fmt_enter(t)
           \/ \E unmount_ok \in BOOLEAN : T_fmt_unmount(t, unmount_ok)
           \/ T_fmt_free(t)
           \/ \E format_ok \in BOOLEAN : T_fmt_format(t, format_ok)
           \/ \E mount_ok \in BOOLEAN, cache_ok \in BOOLEAN : T_fmt_mount(t, mount_ok, cache_ok)
        /\ UNCHANGED <<regVars, dir, attrs>>

ThreadStat ==
    \E t \in Threads :
        /\ \/ \E path \in MTPaths : T_stat_take(t, path)
           \/ \E eng \in EngFor(NULL) : T_stat_lookup(t, eng)
           \/ T_stat_mtime_take(t)
           \/ \E eng \in EngFor(NULL) : T_stat_mtime(t, eng)
        /\ UNCHANGED <<regVars, dir, attrs>>

NextRace ==
    ThreadOpen \/ ThreadClose \/ ThreadRead \/ ThreadFormat \/ ThreadStat

SpecRace == Init /\ [][NextRace]_vars

(***************************************************************************)
(* The registry _efs[CONFIG_LITTLEFS_MAX_PARTITIONS].                      *)
(***************************************************************************)
\* A lookup that examines slot 0 only.
by_label_first_slot(tab, label) ==
    IF tab[0] # NullPtr /\ Deref(tab[0]).label = label THEN 0 ELSE -1

\* esp_littlefs_by_label: the lowest slot whose volume has the label, or -1
\* (ESP_ERR_NOT_FOUND).
esp_littlefs_by_label(tab, label) ==
    IF \E i \in Slots : tab[i] # NullPtr /\ Deref(tab[i]).label = label
    THEN CHOOSE i \in Slots :
             /\ tab[i] # NullPtr /\ Deref(tab[i]).label = label
             /\ \A k \in Slots : (tab[k] # NullPtr /\ Deref(tab[k]).label = label) => i <= k
    ELSE -1

\* esp_littlefs_get_empty: the lowest null slot, or -1 (ESP_FAIL).
esp_littlefs_get_empty(tab) ==
    IF \E i \in Slots : tab[i] = NullPtr
    THEN CHOOSE i \in Slots : tab[i] = NullPtr /\ \A k \in Slots : tab[k] = NullPtr => i <= k
    ELSE -1

\* A release of the context that leaves its slot as it was.
free_keeps_slot(tab, h, i) ==
    [tab |-> tab, h |-> esp_littlefs_free_fds(Deref(tab[i]), h).h,
     unmounted |-> Deref(tab[i]).cache_size > 0]

\* esp_littlefs_free(&_efs[i]): nothing for a null slot; else the slot is
\* cleared, the engine unmounted if cache_size > 0, the records, the cache
\* and the context released.
esp_littlefs_free(tab, h, i) ==
    IF i < 0 \/ tab[i] = NullPtr THEN [tab |-> tab, h |-> h, unmounted |-> FALSE]
    ELSE [tab |-> [tab EXCEPT ![i] = NullPtr],
          h |-> esp_littlefs_free_fds(Deref(tab[i]), h).h,
          unmounted |-> Deref(tab[i]).cache_size > 0]

\* The results the environment hands to one call: of the allocations, of the
\* engine's mount, unmount and format, and of esp_vfs_register.
AllOk ==
    [ctx_ok |-> TRUE, lock_ok |-> TRUE, fs_ok |-> TRUE, mount_ok |-> TRUE,
     mount2_ok |-> TRUE, cache_ok |-> TRUE, unmount_ok |-> TRUE, format_ok |-> TRUE,
     remount_ok |-> TRUE, fcache_ok |-> TRUE, vfs_ok |-> TRUE]

Fails(fields) == {AllOk} \cup {[AllOk EXCEPT ![f] = FALSE] : f \in fields}

\* What can fail in esp_vfs_littlefs_register: with dont_mount, when the
\* first mount succeeds, and when it fails.
RegisterEnvs(dont_mount) ==
    IF dont_mount THEN Fails({"ctx_ok", "vfs_ok"})
    ELSE Fails({"ctx_ok", "lock_ok", "vfs_ok", "mount_ok"})
         \cup {[AllOk EXCEPT !.mount_ok = FALSE, ![f] = FALSE] :
                   f \in {"mount2_ok", "format_ok"}}

\* What can fail in esp_littlefs_format.
FormatEnvs ==
    Fails({"unmount_ok", "format_ok", "remount_ok"})

RegResult(tab, h, ret) ==
    [tab |-> tab, h |-> h, ret |-> ret, hung |-> FALSE, leaked |-> FALSE, trace |-> <<>>]

\* The engine and flash calls of esp_littlefs_format on context e, in order,
\* each with its result (lines 261-302).
format_trace(e, env) ==
    LET was_mounted == e.cache_size > 0
    IN  (IF was_mounted THEN << <<"lfs_unmount", env.unmount_ok>> >> ELSE <<>>)
        \o (IF was_mounted /\ ~env.unmount_ok THEN <<>>
            ELSE << <<"erase", TRUE>>, <<"lfs_format", env.format_ok>> >>)
        \o (IF was_mounted /\ env.unmount_ok /\ env.format_ok
            THEN << <<"lfs_mount", env.remount_ok>> >> ELSE <<>>)

\* lines 582-603: the context after a successful mount.
MountedContext(e, cache_ok) ==
    [e EXCEPT !.fs_mounted = TRUE,
              !.cache_size = 4,
              !.cache = IF cache_ok THEN Zeros(4) ELSE <<>>,
              !.cache_null = ~cache_ok]

\* esp_littlefs_format(internal_version) on the registry.  lock_held says
\* that the caller is esp_littlefs_init, which holds _efs_lock: the
\* temporary context is then created by a call of esp_littlefs_init that
\* waits for _efs_lock forever.
esp_littlefs_format(tab, h, internal_version, env, lock_held) ==
    LET label == IF internal_version THEN "internal" ELSE "external"
        k == esp_littlefs_by_label(tab, label)
        idx == esp_littlefs_get_empty(tab)
        r == format_volume(Deref(tab[k]), h, EmptyTree, env.unmount_ok, env.format_ok,
                           env.remount_ok, env.fcache_ok)
        tmp == format_volume(UnmountedVolume(label), h, EmptyTree, env.unmount_ok,
                             env.format_ok, env.remount_ok, env.fcache_ok)
    IN  IF k >= 0
        THEN [RegResult([tab EXCEPT ![k] = Ptr(r.e)], r.h, r.ret)
                  EXCEPT !.trace = format_trace(Deref(tab[k]), env)]
        ELSE IF lock_held THEN [RegResult(tab, h, ESP_FAIL) EXCEPT !.hung = TRUE]
        ELSE IF idx < 0 THEN RegResult(tab, h, ESP_ERR_INVALID_STATE)
        ELSE IF ~env.ctx_ok THEN RegResult(tab, h, ESP_ERR_NO_MEM)
        ELSE IF ~env.lock_ok \/ ~env.fs_ok
        THEN [RegResult(tab, h, ESP_ERR_NO_MEM) EXCEPT !.leaked = TRUE]
        ELSE IF tmp.exit
        THEN [RegResult(tab, h, tmp.ret)
                  EXCEPT !.trace = format_trace(UnmountedVolume(label), env)]
        ELSE [RegResult([tab EXCEPT ![idx] = Ptr(tmp.e)], h, tmp.ret)
                  EXCEPT !.trace = format_trace(UnmountedVolume(label), env)]

\* esp_littlefs_init(conf), from xSemaphoreTake(_efs_lock) at line 462 to
\* xSemaphoreGive at line 617.
esp_littlefs_init(tab, h, label, dont_mount, format_if_mount_failed, env) ==
    LET idx == esp_littlefs_get_empty(tab)
        dup == esp_littlefs_by_label(tab, label)
        internal_version == label = "internal"
        tab1 == [tab EXCEPT ![idx] = Ptr(UnmountedVolume(label))]
        fmt == esp_littlefs_format(tab1, h, internal_version, env, TRUE)
        fr0 == esp_littlefs_free(tab, h, dup)
        fr1 == esp_littlefs_free(tab1, h, idx)
        fr2 == esp_littlefs_free(fmt.tab, fmt.h, idx)
        mount1 == << <<"lfs_mount", env.mount_ok>> >>
    IN  IF idx < 0 THEN RegResult(tab, h, ESP_ERR_INVALID_STATE)
        ELSE IF dup >= 0 THEN RegResult(fr0.tab, fr0.h, ESP_ERR_INVALID_STATE)
        ELSE IF ~env.ctx_ok THEN RegResult(tab, h, ESP_ERR_NO_MEM)
        ELSE IF ~env.lock_ok \/ ~env.fs_ok
        THEN [RegResult(tab, h, ESP_ERR_NO_MEM) EXCEPT !.leaked = TRUE]
        ELSE IF dont_mount THEN RegResult(tab1, h, ESP_OK)
        ELSE IF env.mount_ok
        THEN [RegResult([tab1 EXCEPT ![idx] = Ptr(MountedContext(Deref(@), env.cache_ok))],
                        h, ESP_OK) EXCEPT !.trace = mount1]
        ELSE IF ~format_if_mount_failed
        THEN [RegResult(fr1.tab, fr1.h, ESP_FAIL) EXCEPT !.trace = mount1]
        ELSE IF fmt.hung THEN [fmt EXCEPT !.trace = mount1]
        ELSE IF fmt.ret # ESP_OK
        THEN [RegResult(fr2.tab, fr2.h, ESP_FAIL) EXCEPT !.trace = mount1 \o fmt.trace]
        ELSE IF ~env.mount2_ok
        THEN [RegResult(fr2.tab, fr2.h, ESP_FAIL)
                  EXCEPT !.trace = mount1 \o fmt.trace \o << <<"lfs_mount", FALSE>> >>]
        ELSE [RegResult([fmt.tab EXCEPT ![idx] = Ptr(MountedContext(Deref(@), env.cache_ok))],
                        fmt.h, ESP_OK)
                  EXCEPT !.trace = mount1 \o fmt.trace \o << <<"lfs_mount", TRUE>> >>]

RegOutcome(op, label, ret, calls) ==
    [NoOutcome EXCEPT !.op = op, !.label = label, !.ret = ret, !.calls = calls]

\* What esp_vfs_littlefs_register hands back, with the fields of conf it was
\* called with and the engine calls of its esp_littlefs_init.
RegisterOutcome(label, ret, dont_mount, format_if_mount_failed, trace) ==
    [RegOutcome("register", label, ret, {}) EXCEPT
        !.args = (IF dont_mount THEN {"dont_mount"} ELSE {})
                 \cup (IF format_if_mount_failed THEN {"format_if_mount_failed"} ELSE {}),
        !.trace = trace]

\* The mutex exists after the first call of esp_littlefs_init (lines 452-460).
LockCreated == _efs_lock' = [_efs_lock EXCEPT !.created = TRUE]

\* esp_vfs_littlefs_register(conf); the base path of the model's volumes is
\* named after their label.
esp_vfs_littlefs_register(label, dont_mount, format_if_mount_failed, env) ==
    \E r \in {esp_littlefs_init(_efs, heap, label, dont_mount, format_if_mount_failed, env)} :
        LET index == esp_littlefs_by_label(r.tab, label)
            fr == esp_littlefs_free(r.tab, r.h, index)
        IN  /\ ~hung
            /\ LockCreated
            /\ IF r.hung
               THEN /\ hung' = TRUE
                    /\ last' = RegisterOutcome(label, ESP_FAIL, dont_mount, format_if_mount_failed, r.trace)
                    /\ UNCHANGED <<_efs, heap, vfs_paths, leaked>>
               ELSE IF r.ret # ESP_OK
               THEN /\ _efs' = r.tab
                    /\ heap' = r.h
                    /\ leaked' = (leaked \/ r.leaked)
                    /\ last' = RegisterOutcome(label, r.ret, dont_mount, format_if_mount_failed, r.trace)
                    /\ UNCHANGED <<vfs_paths, hung>>
               ELSE IF index < 0
               THEN /\ _efs' = r.tab
                    /\ heap' = r.h
                    /\ last' = RegisterOutcome(label, ESP_ERR_NOT_FOUND, dont_mount,
                                               format_if_mount_failed, r.trace)
                    /\ UNCHANGED <<vfs_paths, leaked, hung>>
               ELSE IF ~env.vfs_ok
               THEN /\ _efs' = fr.tab
                    /\ heap' = fr.h
                    /\ last' = RegisterOutcome(label, ESP_ERR_NO_MEM, dont_mount,
                                               format_if_mount_failed, r.trace)
                    /\ UNCHANGED <<vfs_paths, leaked, hung>>
               ELSE /\ _efs' = [r.tab EXCEPT
                                   ![index] = Ptr([Deref(@) EXCEPT !.base_path = label])]
                    /\ heap' = r.h
                    /\ vfs_paths' = vfs_paths \cup {label}
                    /\ last' = RegisterOutcome(label, ESP_OK, dont_mount, format_if_mount_failed, r.trace)
                    /\ UNCHANGED <<leaked, hung>>

\* esp_vfs_littlefs_unregister(partition_label).
esp_vfs_littlefs_unregister(label) ==
    LET index == esp_littlefs_by_label(_efs, label)
        fr == esp_littlefs_free(_efs, heap, index)
    IN  /\ ~hung
        /\ IF index < 0
           THEN /\ last' = RegOutcome("unregister", label, ESP_ERR_INVALID_STATE, {})
                /\ UNCHANGED <<_efs, heap, vfs_paths>>
           ELSE IF Deref(_efs[index]).base_path \notin vfs_paths
           THEN /\ last' = RegOutcome("unregister", label, ESP_ERR_INVALID_STATE,
                                      {"esp_vfs_unregister"})
                /\ UNCHANGED <<_efs, heap, vfs_paths>>
           ELSE /\ vfs_paths' = vfs_paths \ {Deref(_efs[index]).base_path}
                /\ _efs' = fr.tab
                /\ heap' = fr.h
                /\ last' = RegOutcome("unregister", label, ESP_OK,
                                      {"esp_vfs_unregister"}
                                      \cup (IF fr.unmounted THEN {"lfs_unmount"} ELSE {})
                                      \cup (IF Deref(_efs[index]).file # <<>>
                                            THEN {"free_file"} ELSE {}))
        /\ UNCHANGED <<_efs_lock, leaked, hung>>

\* esp_littlefs_format(internal_version), called by the application.
FormatCall(internal_version, env) ==
    \E r \in {esp_littlefs_format(_efs, heap, internal_version, env, FALSE)} :
        LET label == IF internal_version THEN "internal" ELSE "external"
        IN  /\ ~hung
            /\ _efs' = r.tab
            /\ heap' = r.h
            /\ leaked' = (leaked \/ r.leaked)
            /\ _efs_lock' = IF esp_littlefs_by_label(_efs, label) < 0
                            THEN [_efs_lock EXCEPT !.created = TRUE] ELSE _efs_lock
            /\ last' = RegOutcome("format", label, r.ret, {})
            /\ UNCHANGED <<vfs_paths, hung>>

\* vfs_littlefs_open of the volume in slot i, dispatched by the VFS layer,
\* when the allocations and the engine succeed.
OpenOn(i, path) ==
    LET e == Deref(_efs[i])
        a == esp_littlefs_allocate_fd(e, heap, TRUE, TRUE)
    IN  /\ ~hung
        /\ _efs[i] # NullPtr
        /\ e.base_path \in vfs_paths
        /\ e.fs_mounted /\ ~e.cache_null
        /\ Cardinality({r \in RecIds : heap[r].live}) < MaxRegOpen
        /\ _efs' = [_efs EXCEPT ![i] = Ptr(a.e)]
        /\ heap' = [a.h EXCEPT ![a.file].hash = compute_hash(path), ![a.file].path = path]
        /\ last' = [RegOutcome("open", e.label, a.fd, {"lfs_file_open"}) EXCEPT !.path = path]
        /\ UNCHANGED <<vfs_paths, _efs_lock, leaked, hung>>

RegUnchanged == UNCHANGED <<efs, nodes, crashed, lock, pc, loc, dir, attrs>>

Register ==
    \E label \in Labels, dont_mount \in BOOLEAN :
      \E env \in RegisterEnvs(dont_mount) :
        \E format_if_mount_failed \in (IF dont_mount \/ env.mount_ok THEN {FALSE} ELSE BOOLEAN) :
            /\ esp_vfs_littlefs_register(label, dont_mount, format_if_mount_failed, env)
            /\ RegUnchanged

Unregister == \E label \in Labels : esp_vfs_littlefs_unregister(label) /\ RegUnchanged

FormatLabel ==
    \E internal_version \in BOOLEAN, env \in FormatEnvs :
        FormatCall(internal_version, env) /\ RegUnchanged

OpenRegistered == \E i \in Slots : OpenOn(i, PathA) /\ RegUnchanged

NextReg == Register \/ Unregister \/ FormatLabel \/ OpenRegistered

\* SpecReg: the registry's entry points, each as one step of a single thread.
SpecReg == Init /\ [][NextReg]_vars

(***************************************************************************)
(* SpecInfo: esp_littlefs_info next to registration and unregistration.    *)
(* Every context has the geometry esp_littlefs_init gives it: blocks of    *)
(* CONFIG_LITTLEFS_BLOCK_SIZE bytes, as many as the flash holds.           *)
(***************************************************************************)
\* efs->cfg.block_size and efs->cfg.block_count (lines 547-548).
cfg(e) == [block_size |-> CONFIG_LITTLEFS_BLOCK_SIZE, block_count |-> FlashBlocks]

\* esp_littlefs_info(partition_label, total_bytes, used_bytes).  want_total
\* and want_used say that the pointer is not null; fs_size is the result
\* of lfs_fs_size.  out holds the values written, ret the value returned:
\* false for a label that is not found.
esp_littlefs_info(tab, label, want_total, want_used, fs_size) ==
    LET index == esp_littlefs_by_label(tab, label)
        e == Deref(tab[index])
    IN  IF index < 0 THEN [ret |-> 0, out |-> <<>>, calls |-> {}]
        ELSE [ret |-> ESP_OK,
              out |-> (IF want_total
                       THEN << <<"total", cfg(e).block_size * cfg(e).block_count>> >>
                       ELSE <<>>)
                      \o (IF want_used
                          THEN << <<"used", cfg(e).block_size * fs_size>> >>
                          ELSE <<>>),
              calls |-> {"lfs_fs_size"}]

\* args holds the outputs the caller asked for, trace the values written.
Info ==
    \E label \in Labels, want_total \in BOOLEAN, want_used \in BOOLEAN :
      \E fs_size \in 0 .. FlashBlocks, eng \in {"ok", "crash"} :
        LET r == esp_littlefs_info(_efs, label, want_total, want_used, fs_size)
            index == esp_littlefs_by_label(_efs, label)
        IN  /\ ~crashed /\ ~hung
            /\ eng = "crash" => (index >= 0 /\ ~Deref(_efs[index]).fs_mounted)
            /\ crashed' = (eng = "crash")
            /\ last' = [RegOutcome("info", label, r.ret, r.calls) EXCEPT
                           !.args = (IF want_total THEN {"total"} ELSE {})
                                    \cup (IF want_used THEN {"used"} ELSE {}),
                           !.trace = IF eng = "crash" THEN <<>> ELSE r.out]
            /\ UNCHANGED <<efs, heap, nodes, lock, pc, loc, dir, attrs, regVars>>

InfoRegister == ~crashed /\ Register

InfoUnregister == ~crashed /\ Unregister

NextInfo == InfoRegister \/ InfoUnregister \/ Info

SpecInfo == Init /\ [][NextInfo]_vars

(***************************************************************************)
(* SpecRegMT: threads that call esp_vfs_littlefs_register,                 *)
(* esp_vfs_littlefs_unregister and esp_littlefs_mounted.  A step is what   *)
(* a thread does between two points where another thread may run: the      *)
(* part of esp_littlefs_init between xSemaphoreTake(_efs_lock) and         *)
(* xSemaphoreGive is one step, every access of _efs outside it is a step   *)
(* of its own.  Callers pass format_if_mount_failed = false.               *)
(***************************************************************************)
MTLabels == {"internal", "external"}

RegReturn(t, op, label, ret) ==
    /\ last' = RegOutcome(op, label, ret, {})
    /\ Return(t)

RegCrash(t, op, label) ==
    /\ crashed' = TRUE
    /\ last' = RegOutcome(op, label, 0, {})
    /\ UNCHANGED <<_efs, heap, vfs_paths, pc, loc>>

\* esp_vfs_littlefs_register calls esp_littlefs_init, which creates
\* _efs_lock on its first call (lines 180, 452-460).
T_reg_enter(t, label, dont_mount) ==
    /\ ~crashed
    /\ pc[t] = "idle"
    /\ _efs_lock' = [_efs_lock EXCEPT !.created = TRUE]
    /\ Goto(t, "init_take")
    /\ loc' = [loc EXCEPT ![t] = [NoLocals EXCEPT !.label = label, !.dont_mount = dont_mount]]
    /\ UNCHANGED <<_efs, heap, vfs_paths, crashed, last>>

\* xSemaphoreTake(_efs_lock, portMAX_DELAY), line 462.
T_init_take(t) ==
    /\ ~crashed
    /\ pc[t] = "init_take"
    /\ _efs_lock.owner = 0
    /\ _efs_lock' = [_efs_lock EXCEPT !.owner = t]
    /\ Goto(t, "init_body")
    /\ UNCHANGED <<_efs, heap, vfs_paths, crashed, last, loc>>

\* esp_littlefs_init from line 464 to its return, and lines 181-184.
T_init_body(t, env) ==
    \E r \in {esp_littlefs_init(_efs, heap, loc[t].label, loc[t].dont_mount, FALSE, env)} :
        /\ ~crashed
        /\ pc[t] = "init_body"
        /\ _efs' = r.tab
        /\ heap' = r.h
        /\ _efs_lock' = [_efs_lock EXCEPT !.owner = 0]
        /\ IF r.ret # ESP_OK
           THEN RegReturn(t, "register", loc[t].label, r.ret)
           ELSE Goto(t, "reg_lookup") /\ UNCHANGED <<last, loc>>
        /\ UNCHANGED <<vfs_paths, crashed>>

\* esp_littlefs_by_label of esp_vfs_littlefs_register, lines 186-190.
T_reg_lookup(t) ==
    LET index == esp_littlefs_by_label(_efs, loc[t].label)
    IN  /\ ~crashed
        /\ pc[t] = "reg_lookup"
        /\ IF index < 0
           THEN RegReturn(t, "register", loc[t].label, ESP_ERR_NOT_FOUND)
           ELSE /\ Goto(t, "reg_attach")
                /\ loc' = [loc EXCEPT ![t].fd = index]
                /\ UNCHANGED last
        /\ UNCHANGED <<_efs, heap, vfs_paths, crashed, _efs_lock>>

\* strlcat(_efs[index]->base_path, ...) and esp_vfs_register, lines 192-200.
T_reg_attach(t, vfs_ok) ==
    LET index == loc[t].fd
        label == loc[t].label
        fr == esp_littlefs_free(_efs, heap, index)
    IN  /\ ~crashed
        /\ pc[t] = "reg_attach"
        /\ IF _efs[index] = NullPtr THEN RegCrash(t, "register", label)
           ELSE IF ~vfs_ok
           THEN /\ _efs' = fr.tab
                /\ heap' = fr.h
                /\ RegReturn(t, "register", label, ESP_ERR_NO_MEM)
                /\ UNCHANGED <<vfs_paths, crashed>>
           ELSE /\ _efs' = [_efs EXCEPT ![index] = Ptr([Deref(@) EXCEPT !.base_path = label])]
                /\ vfs_paths' = vfs_paths \cup {label}
                /\ RegReturn(t, "register", label, ESP_OK)
                /\ UNCHANGED <<heap, crashed>>
        /\ UNCHANGED _efs_lock

\* esp_littlefs_by_label of esp_vfs_littlefs_unregister, lines 207-210.
T_unreg_lookup(t, label) ==
    LET index == esp_littlefs_by_label(_efs, label)
    IN  /\ ~crashed
        /\ pc[t] = "idle"
        /\ IF index < 0
           THEN RegReturn(t, "unregister", label, ESP_ERR_INVALID_STATE)
           ELSE /\ Goto(t, "unreg_detach")
                /\ loc' = [loc EXCEPT ![t] = [NoLocals EXCEPT !.label = label, !.fd = index]]
                /\ UNCHANGED last
        /\ UNCHANGED <<_efs, heap, vfs_paths, crashed, _efs_lock>>

\* esp_vfs_unregister(_efs[index]->base_path), lines 212-216.
T_unreg_detach(t) ==
    LET index == loc[t].fd
        label == loc[t].label
    IN  /\ ~crashed
        /\ pc[t] = "unreg_detach"
        /\ IF _efs[index] = NullPtr THEN RegCrash(t, "unregister", label)
           ELSE IF Deref(_efs[index]).base_path \notin vfs_paths
           THEN /\ RegReturn(t, "unregister", label, ESP_ERR_INVALID_STATE)
                /\ UNCHANGED <<_efs, heap, vfs_paths, crashed>>
           ELSE /\ vfs_paths' = vfs_paths \ {Deref(_efs[index]).base_path}
                /\ Goto(t, "unreg_free")
                /\ UNCHANGED <<_efs, heap, crashed, last, loc>>
        /\ UNCHANGED _efs_lock

\* esp_littlefs_free(&_efs[index]); _efs[index] = NULL, lines 217-219.
T_unreg_free(t) ==
    LET fr == esp_littlefs_free(_efs, heap, loc[t].fd)
    IN  /\ ~crashed
        /\ pc[t] = "unreg_free"
        /\ _efs' = fr.tab
        /\ heap' = fr.h
        /\ RegReturn(t, "unregister", loc[t].label, ESP_OK)
        /\ UNCHANGED <<vfs_paths, crashed, _efs_lock>>

\* esp_littlefs_by_label of esp_littlefs_mounted, lines 119-123; a label
\* that is not found returns false.
T_mounted_lookup(t, label) ==
    LET index == esp_littlefs_by_label(_efs, label)
    IN  /\ ~crashed
        /\ pc[t] = "idle"
        /\ IF index < 0
           THEN RegReturn(t, "mounted", label, 0)
           ELSE /\ Goto(t, "mounted_read")
                /\ loc' = [loc EXCEPT ![t] = [NoLocals EXCEPT !.label = label, !.fd = index]]
                /\ UNCHANGED last
        /\ UNCHANGED <<_efs, heap, vfs_paths, crashed, _efs_lock>>

\* return _efs[index]->cache_size > 0, line 124.
T_mounted_read(t) ==
    LET index == loc[t].fd
    IN  /\ ~crashed
        /\ pc[t] = "mounted_read"
        /\ IF _efs[index] = NullPtr THEN RegCrash(t, "mounted", loc[t].label)
           ELSE /\ RegReturn(t, "mounted", loc[t].label,
                             IF Deref(_efs[index]).cache_size > 0 THEN 1 ELSE 0)
                /\ UNCHANGED crashed
        /\ UNCHANGED <<_efs, heap, vfs_paths, _efs_lock>>

RegMTUnchanged == UNCHANGED <<efs, nodes, lock, leaked, hung, dir, attrs>>

ThreadRegister ==
    \E t \in Threads :
        /\ \/ \E label \in MTLabels, dont_mount \in BOOLEAN : T_reg_enter(t, label, dont_mount)
           \/ T_init_take(t)
           \/ \E env \in Fails({"mount_ok"}) : T_init_body(t, env)
           \/ T_reg_lookup(t)
           \/ \E vfs_ok \in BOOLEAN : T_reg_attach(t, vfs_ok)
        /\ RegMTUnchanged

ThreadUnregister ==
    \E t \in Threads :
        /\ \/ \E label \in MTLabels : T_unreg_lookup(t, label)
           \/ T_unreg_detach(t)
           \/ T_unreg_free(t)
        /\ RegMTUnchanged

ThreadMounted ==
    \E t \in Threads :
        /\ \/ \E label \in MTLabels : T_mounted_lookup(t, label)
           \/ T_mounted_read(t)
        /\ RegMTUnchanged

NextRegMT == ThreadRegister \/ ThreadUnregister \/ ThreadMounted

SpecRegMT == Init /\ [][NextRegMT]_vars

(***************************************************************************)
(* SpecLockInit: threads that call esp_vfs_littlefs_register, with the     *)
(* creation of _efs_lock (lines 452-460) cut at every access of the        *)
(* pointer and of the critical section.  A mutex is named by the number    *)
(* of the xSemaphoreCreateMutex call that made it.  The calls mount at     *)
(* once and their allocations succeed.                                     *)
(***************************************************************************)
\* An entry that never waits.
mux_enter_no_wait(t) == TRUE

\* portENTER_CRITICAL(&mux) returns when no other thread is inside the
\* critical section.
mux_enter_ready(t) == _efs_lock.mux = 0

\* if( _efs_lock == NULL ), line 452.
T_lock_check(t, label, dont_mount) ==
    /\ ~crashed
    /\ pc[t] = "idle"
    /\ Goto(t, IF _efs_lock.handle = NULL THEN "lock_enter" ELSE "lock_take")
    /\ loc' = [loc EXCEPT ![t] = [NoLocals EXCEPT !.label = label, !.dont_mount = dont_mount]]
    /\ UNCHANGED <<_efs, heap, vfs_paths, crashed, last, _efs_lock>>

\* portENTER_CRITICAL(&mux), line 454.
T_lock_enter(t) ==
    /\ ~crashed
    /\ pc[t] = "lock_enter"
    /\ mux_enter_ready(t)
    /\ _efs_lock' = [_efs_lock EXCEPT !.mux = t]
    /\ Goto(t, "lock_check2")
    /\ UNCHANGED <<_efs, heap, vfs_paths, crashed, last, loc>>

\* if( _efs_lock == NULL ), line 455.
T_lock_check2(t) ==
    /\ ~crashed
    /\ pc[t] = "lock_check2"
    /\ Goto(t, IF _efs_lock.handle = NULL THEN "lock_create" ELSE "lock_exit")
    /\ UNCHANGED <<_efs, heap, vfs_paths, crashed, last, loc, _efs_lock>>

\* _efs_lock = xSemaphoreCreateMutex(), lines 456-457.
T_lock_create(t) ==
    /\ ~crashed
    /\ pc[t] = "lock_create"
    /\ _efs_lock' = [_efs_lock EXCEPT !.made = @ + 1, !.handle = _efs_lock.made + 1,
                                      !.created = TRUE]
    /\ Goto(t, "lock_exit")
    /\ UNCHANGED <<_efs, heap, vfs_paths, crashed, last, loc>>

\* portEXIT_CRITICAL(&mux), line 459.
T_lock_exit(t) ==
    /\ ~crashed
    /\ pc[t] = "lock_exit"
    /\ _efs_lock' = [_efs_lock EXCEPT !.mux = IF @ = t THEN 0 ELSE @]
    /\ Goto(t, "lock_take")
    /\ UNCHANGED <<_efs, heap, vfs_paths, crashed, last, loc>>

\* xSemaphoreTake(_efs_lock, portMAX_DELAY), line 462; the thread keeps the
\* mutex it took in loc[t].file.
T_lock_take(t) ==
    /\ ~crashed
    /\ pc[t] = "lock_take"
    /\ _efs_lock.owner = 0
    /\ _efs_lock' = [_efs_lock EXCEPT !.owner = t]
    /\ Goto(t, "init_body")
    /\ loc' = [loc EXCEPT ![t].file = _efs_lock.handle]
    /\ UNCHANGED <<_efs, heap, vfs_paths, crashed, last>>

ThreadLockInit ==
    \E t \in Threads :
        /\ \/ \E label \in MTLabels : T_lock_check(t, label, FALSE)
           \/ T_lock_enter(t)
           \/ T_lock_check2(t)
           \/ T_lock_create(t)
           \/ T_lock_exit(t)
           \/ T_lock_take(t)
        /\ RegMTUnchanged

ThreadInit ==
    \E t \in Threads :
        /\ \/ T_init_body(t, AllOk)
           \/ T_reg_lookup(t)
           \/ T_reg_attach(t, TRUE)
        /\ RegMTUnchanged

NextLockInit == ThreadLockInit \/ ThreadInit

SpecLockInit == Init /\ [][NextLockInit]_vars


(***************************************************************************)
(* Properties of the entry points (Spec).                                  *)
(***************************************************************************)
BoundSlots(e) == {i \in 1 .. Len(e.cache) : e.cache[i] # NULL}

\* Some descriptor of the volume is bound to a record that was opened as path.
PathBound(e, h, path) == \E i \in BoundSlots(e) : h[e.cache[i]].path = path

\* C1: fd_count equals the number of non-null cache slots and the length of
\* the open-file list, and every non-null slot points to exactly one node of
\* the list.
C1_CountsAgree ==
    /\ efs.fd_count = Cardinality(BoundSlots(efs))
    /\ efs.fd_count = Len(efs.file)
    /\ \A i \in BoundSlots(efs) :
           Cardinality({k \in 1 .. Len(efs.file) : efs.file[k] = efs.cache[i]}) = 1

\* C3: an entry point that takes a descriptor rejects every descriptor
\* d >= capacity and every negative d with EBADF, and never indexes the
\* cache outside 0 .. capacity - 1.
C3_BoundChecked ==
    last.op \in FdOps \cup {"close"} =>
        /\ ~last.oob
        /\ (last.fd < 0 \/ last.fd >= efs.cache_size) =>
               (last.ret = -1 /\ last.err = -LFS_ERR_BADF)

\* C4: unlink of a path that has an open descriptor returns -1 with errno
\* EBUSY and does not call the engine's remove (stated for the calls in which
\* the engine's stat of the path succeeds).
C4_UnlinkBusy ==
    (/\ last.op = "unlink"
     /\ ~crashed
     /\ PathBound(efs, heap, last.path)
     /\ last.err # -LFS_ERR_IO) =>
        (last.ret = -1 /\ last.err = EBUSY /\ "lfs_remove" \notin last.calls)

NoRebind ==
    \A i \in 1 .. Len(efs.cache) :
        (i <= Len(efs'.cache) /\ efs.cache[i] # NULL /\ efs'.cache[i] # NULL)
            => efs'.cache[i] = efs.cache[i]

\* The descriptor an open returns, when it names a slot, names the slot that
\* holds the record this open created.
ReturnsOwnSlot ==
    \A t \in Threads :
        (pc[t] = "open_engine" /\ pc'[t] = "idle" /\ last'.op = "open" /\ last'.ret >= 0)
            => (InCache(efs', last'.ret) => efs'.cache[last'.ret + 1] = loc[t].file)

\* No record is bound to two slots.
OneSlotPerRecord(e) ==
    \A i, j \in BoundSlots(e) : e.cache[i] = e.cache[j] => i = j

MidCallSteps == {"open_bind", "open_engine", "stat_gap", "stat_mtime"}

\* The positions of a thread that is inside open, close or read.
InsideSteps == {"open_alloc", "open_bind", "open_engine", "close_body", "read_body"}

\* C8: format touches the cache and the records under the volume's lock: it
\* never releases the records and the cache while another thread is inside
\* open, close or read on the volume.
C8_LockHeld ==
    [][\A t \in Threads :
           (pc[t] = "fmt_free" /\ pc'[t] = "fmt_format")
               => \A u \in Threads \ {t} : pc[u] \notin InsideSteps]_vars

\* C9: a thread inside a dispatch entry point holds the volume's lock at
\* every position between the entry point's first and last engine or cache
\* access.
C9_LockContinuous == \A t \in Threads : pc[t] \in MidCallSteps => lock.owner = t

(***************************************************************************)
(* Properties of the registry (SpecReg).                                   *)
(***************************************************************************)
\* The slots of the registry that hold a volume.
Occupied(tab) == {i \in Slots : tab[i] # NullPtr}

\* A label is registered when the registry holds a volume of that label
\* whose base path is attached to the VFS layer.
Registered(label) ==
    /\ esp_littlefs_by_label(_efs, label) >= 0
    /\ Deref(_efs[esp_littlefs_by_label(_efs, label)]).base_path \in vfs_paths

\* C6: a register call with a label that a volume of the registry holds, or
\* made when every slot of the registry is occupied, returns
\* ESP_ERR_INVALID_STATE, and every volume the registry holds afterwards was
\* in the same slot before the call.
C6_RegisterRefused ==
    [][(/\ last'.op = "register"
        /\ \/ \E i \in Occupied(_efs) : Deref(_efs[i]).label = last'.label
           \/ Occupied(_efs) = Slots)
       => /\ last'.ret = ESP_ERR_INVALID_STATE
          /\ \A i \in Occupied(_efs') : _efs'[i] = _efs[i]
          /\ vfs_paths' = vfs_paths]_vars

\* A register call with a fresh label was refused by a full registry.
C6_Witness ==
    /\ last.op = "register"
    /\ last.ret = ESP_ERR_INVALID_STATE
    /\ Occupied(_efs) = Slots
    /\ \A i \in Slots : Deref(_efs[i]).label # last.label

\* C7: an unregister call with a label that is not registered returns
\* ESP_ERR_INVALID_STATE and leaves the registry, the heap and the VFS layer
\* as they were; with a registered label it returns ESP_OK, after it no slot
\* holds the label, the volume's slot is null and free for the next
\* register, the engine was unmounted exactly when the volume was mounted,
\* and no record of the volume's list is live.
C7_Unregister ==
    [][last'.op = "unregister"
       => LET label == last'.label
              i == esp_littlefs_by_label(_efs, label)
          IN  IF ~Registered(label)
              THEN /\ last'.ret = ESP_ERR_INVALID_STATE
                   /\ UNCHANGED <<_efs, heap, vfs_paths>>
              ELSE /\ last'.ret = ESP_OK
                   /\ esp_littlefs_by_label(_efs', label) < 0
                   /\ _efs'[i] = NullPtr
                   /\ esp_littlefs_get_empty(_efs') >= 0
                   /\ ("lfs_unmount" \in last'.calls) = Deref(_efs[i]).fs_mounted
                   /\ \A k \in 1 .. Len(Deref(_efs[i]).file) :
                          ~heap'[Deref(_efs[i]).file[k]].live
                   /\ \A j \in Slots \ {i} : _efs'[j] = _efs[j]]_vars

\* An unregister call released a mounted volume that had an open file: no
\* record is live any more and no slot holds the label, while another
\* volume is still registered.
C7_Witness ==
    /\ last.op = "unregister"
    /\ last.ret = ESP_OK
    /\ {"lfs_unmount", "free_file"} \subseteq last.calls
    /\ esp_littlefs_by_label(_efs, last.label) < 0
    /\ \A r \in RecIds : ~heap[r].live
    /\ \E i \in Occupied(_efs) : Deref(_efs[i]).label # last.label

(***************************************************************************)
(* Properties of the registry's threads (SpecRegMT).                       *)
(***************************************************************************)
\* The positions of a thread between its first and its last access of _efs.
RegistrySteps == {"init_body", "reg_lookup", "reg_attach", "unreg_detach", "unreg_free",
                  "mounted_read"}

\* C10: a thread that is between its first and its last access of the
\* registry table holds _efs_lock, and no two threads are there at once.
C10_RegistrySerialized ==
    /\ \A t \in Threads : pc[t] \in RegistrySteps => _efs_lock.owner = t
    /\ \A t, u \in Threads :
           (t # u /\ pc[t] \in RegistrySteps) => pc[u] \notin RegistrySteps

(***************************************************************************)
(* Properties of the creation of the registry's lock (SpecLockInit).       *)
(***************************************************************************)
\* The positions at which a thread holds the mutex it took.
HoldsRegistryLock == {"init_body"}

\* C11: xSemaphoreCreateMutex is called at most once, it is called only by
\* a thread inside the critical section that found the pointer null, and
\* every thread that took the lock took the one mutex the pointer names.
C11_LockCreatedOnce ==
    /\ [](_efs_lock.made <= 1)
    /\ [](\A t \in Threads : pc[t] \in HoldsRegistryLock =>
              (loc[t].file = _efs_lock.handle /\ loc[t].file = 1))
    /\ [][_efs_lock'.made # _efs_lock.made =>
              (/\ _efs_lock.handle = NULL
               /\ _efs_lock.mux # 0
               /\ pc[_efs_lock.mux] = "lock_create")]_vars

\* Two threads found the pointer null at line 452, one of them created the
\* mutex and the other, inside the critical section, found it created.
C11_Witness ==
    /\ _efs_lock.made = 1
    /\ \E t, u \in Threads :
           /\ t # u
           /\ pc[t] = "init_body"
           /\ pc[u] = "lock_exit"
           /\ _efs_lock.mux = u

(***************************************************************************)
(* Properties of format and of the allocator (Spec).                       *)
(***************************************************************************)
\* C12: a format of the mounted volume that returns ESP_OK leaves the
\* volume mounted, with fd_count 0, an empty open-file list, no live record
\* and a cache of CONFIG_LITTLEFS_FD_CACHE_MIN_SIZE null slots.
C12_FormatRemounts ==
    [][(/\ last'.op = "format"
        /\ last'.ret = ESP_OK
        /\ efs.fs_mounted
        /\ efs.cache_size > 0)
       => (/\ efs'.fs_mounted
           /\ efs'.fd_count = 0
           /\ efs'.file = <<>>
           /\ \A r \in RecIds : ~heap'[r].live
           /\ efs'.cache_size = CONFIG_LITTLEFS_FD_CACHE_MIN_SIZE
           /\ ~efs'.cache_null
           /\ efs'.cache = Zeros(CONFIG_LITTLEFS_FD_CACHE_MIN_SIZE))]_vars

(***************************************************************************)
(* Properties of format and init on the registry (SpecReg).                *)
(***************************************************************************)
\* C13: a format of a variant that has no volume in the registry leaves the
\* registry as it was, whatever it returns: afterwards no slot holds the
\* variant's label.
C13_FormatTransient ==
    [][(/\ last'.op = "format"
        /\ esp_littlefs_by_label(_efs, last'.label) < 0)
       => (/\ esp_littlefs_by_label(_efs', last'.label) < 0
           /\ _efs' = _efs)]_vars

\* The number of calls of name in a trace.
CallCount(trace, name) == Cardinality({k \in 1 .. Len(trace) : trace[k][1] = name})

\* The first lfs_mount of a register call failed.
FirstMountFailed(out) ==
    out.op = "register" /\ out.trace # <<>> /\ out.trace[1] = <<"lfs_mount", FALSE>>

\* C14: a register call whose first mount fails, with format_if_mount_failed
\* set, returns after exactly one erase and one lfs_format and at most one
\* further lfs_mount (exactly one when the format succeeded), and when it
\* returns an error no slot holds the label; without format_if_mount_failed
\* it returns an error without an erase or a format.
C14_AutoFormatOnce ==
    [][FirstMountFailed(last') =>
          IF "format_if_mount_failed" \in last'.args
          THEN /\ hung' = hung
               /\ CallCount(last'.trace, "erase") = 1
               /\ CallCount(last'.trace, "lfs_format") = 1
               /\ CallCount(last'.trace, "lfs_mount") =
                      (IF <<"lfs_format", TRUE>> \in {last'.trace[k] : k \in 1 .. Len(last'.trace)}
                       THEN 2 ELSE 1)
               /\ last'.ret # ESP_OK => esp_littlefs_by_label(_efs', last'.label) < 0
          ELSE /\ last'.ret # ESP_OK
               /\ CallCount(last'.trace, "erase") = 0
               /\ CallCount(last'.trace, "lfs_format") = 0
               /\ esp_littlefs_by_label(_efs', last'.label) < 0]_vars

(***************************************************************************)
(* Properties of the allocator (SpecAlloc).                                *)
(***************************************************************************)
\* An open that returned -1 before it reached the engine: its
\* esp_littlefs_allocate_fd failed.
AllocationFailed(out) ==
    out.op = "open" /\ out.ret = -1 /\ "lfs_file_open" \notin out.calls

\* C15: an open whose descriptor allocation fails leaves the volume and the
\* records as they were and sets errno to ENOMEM.
C15_AllocFailureRollsBack ==
    [][(AllocationFailed(last') /\ ~crashed')
       => (/\ efs' = efs
           /\ heap' = heap
           /\ last'.err = -LFS_ERR_NOMEM)]_vars

\* An open that returned -1 after the engine's open failed.
EngineOpenFailed(out) ==
    out.op = "open" /\ out.ret = -1 /\ "lfs_file_open" \in out.calls

\* C16: an open whose lfs_file_open fails returns -1 with the engine's
\* error as errno, and fd_count, the bound slots with their records, the
\* open-file list and the records are as before the call.
C16_FailedOpenReleases ==
    [][(EngineOpenFailed(last') /\ ~crashed')
       => (/\ \E eng \in {"ok", "err"} :
                  LET res == lfs_file_open(efs, nodes, last'.path,
                                           esp_littlefs_flags_conv(O_RDONLY), eng)
                  IN  res < 0 /\ last'.err = -res
           /\ efs'.fd_count = efs.fd_count
           /\ BoundSlots(efs') = BoundSlots(efs)
           /\ \A i \in BoundSlots(efs) : efs'.cache[i] = efs.cache[i]
           /\ efs'.file = efs.file
           /\ heap' = heap)]_vars

\* An open that returned a descriptor.
OpenSucceeded(out) == out.op = "open" /\ out.ret >= 0

\* Slot i of volume e holds no record.
SlotNull(e, i) == InCache(e, i) /\ e.cache[i + 1] = NULL

\* C17: a successful open returns a descriptor that has a slot in the cache,
\* no smaller descriptor's slot was null when the call was made and the
\* returned one was null or was added by the call; it is 0 on a mounted
\* volume with no open file, and it is the descriptor of the close that
\* came just before when no smaller slot is free.
C17_FirstFit ==
    [][(OpenSucceeded(last') /\ ~crashed')
       => (/\ last'.ret < efs'.cache_size
           /\ InCache(efs, last'.ret) => SlotNull(efs, last'.ret)
           /\ \A i \in 0 .. last'.ret - 1 : ~SlotNull(efs, i)
           /\ (efs.fs_mounted /\ efs.fd_count = 0) => last'.ret = 0
           /\ (last.op = "close" /\ last.ret = 0
                   /\ \A i \in 0 .. last.fd - 1 : ~SlotNull(efs, i))
                  => last'.ret = last.fd)]_vars

\* An open that found the cache full and replaced it by a larger one
\* (the realloc of line 685 succeeded).
CacheGrown(e, e2, out) ==
    /\ out.op = "open"
    /\ e.fd_count + 1 > e.cache_size
    /\ out.ret >= 0 \/ EngineOpenFailed(out) \/ e2 # e

\* C18: an open that grows the cache leaves every bound slot with the
\* record it had, leaves every added slot null except the one it returns,
\* and makes the capacity min(65535, 2 * old capacity).
C18_GrowthKeepsDescriptors ==
    [][(CacheGrown(efs, efs', last') /\ ~crashed')
       => (/\ efs'.cache_size = Min(UINT16_MAX, 2 * efs.cache_size)
           /\ Len(efs'.cache) = efs'.cache_size
           /\ \A i \in BoundSlots(efs) : efs'.cache[i] = efs.cache[i]
           /\ \A i \in Len(efs.cache) + 1 .. Len(efs'.cache) :
                  efs'.cache[i] = NULL \/ i - 1 = last'.ret)]_vars

\* An open has returned descriptor 4 of a cache grown from 4 to 8 slots,
\* with the four earlier descriptors still bound.
C18_Witness ==
    /\ last.op = "open" /\ last.ret = CONFIG_LITTLEFS_FD_CACHE_MIN_SIZE
    /\ efs.cache_size = 2 * CONFIG_LITTLEFS_FD_CACHE_MIN_SIZE
    /\ efs.fd_count = CONFIG_LITTLEFS_FD_CACHE_MIN_SIZE + 1
    /\ BoundSlots(efs) = 1 .. CONFIG_LITTLEFS_FD_CACHE_MIN_SIZE + 1

\* Descriptor fd is open before a step: its slot is bound, or the call
\* before this one was the open that returned it.
DescriptorOpen(e, out, fd) ==
    (fd + 1) \in BoundSlots(e) \/ (OpenSucceeded(out) /\ out.ret = fd)

\* Nothing is open on volume e.
Drained(e) == e.fd_count = 0 /\ BoundSlots(e) = {} /\ e.file = <<>>

\* C19: every close of an open descriptor that returns 0 takes one record
\* off the list, one off fd_count and nulls the slot, and the close of the
\* last open descriptor leaves every slot null, fd_count 0 and the list
\* empty; whenever no record is allocated the volume is in that state.
C19_FullDrain ==
    /\ []((\A r \in DOMAIN heap : ~heap[r].live) => Drained(efs))
    /\ [][(/\ last'.op = "close" /\ last'.ret = 0 /\ ~crashed'
           /\ DescriptorOpen(efs, last, last'.fd))
          => (/\ efs'.fd_count = efs.fd_count - 1
              /\ Len(efs'.file) = Len(efs.file) - 1
              /\ (last'.fd + 1) \notin BoundSlots(efs')
              /\ BoundSlots(efs) \subseteq {last'.fd + 1} => Drained(efs'))]_vars

(***************************************************************************)
(* Properties of directory streams (SpecDir).                              *)
(***************************************************************************)
\* The positions after pos of the listing of stream d that hold an entry
\* other than "." and "..".
RealAfter(d) ==
    {k \in d.pos + 1 .. Len(d.list) : d.list[k].name \notin {Dot, DotDot}}

\* C20: a readdir that returns an entry returns the first entry after the
\* stream's position that is not "." or "..", never "." or ".." themselves,
\* and a readdir that reports the end of the directory without an error
\* does so only when no such entry is left.
C20_ReaddirSkipsPseudo ==
    [][(last'.op = "readdir" /\ last'.ret = 0)
       => IF "entry" \in last'.args
          THEN /\ dir'.e.d_name \notin {Dot, DotDot}
               /\ RealAfter(dir) # {}
               /\ dir'.pos \in RealAfter(dir)
               /\ \A k \in RealAfter(dir) : dir'.pos <= k
               /\ dir'.e.d_name = dir.list[dir'.pos].name
          ELSE RealAfter(dir) = {}]_vars

\* A readdir at the start of a listing has returned the entry behind "."
\* and "..".
C20_Witness ==
    /\ last.op = "readdir" /\ "entry" \in last.args
    /\ dir.pos = 3 /\ dir.offset = 1
    /\ dir.e.d_name = dir.list[3].name

\* The result of the n-th readdir of a fresh iteration over the listing of
\* stream d (n >= 1), every engine call succeeding.
RECURSIVE nth_readdir(_, _)
nth_readdir(d, n) ==
    LET r == vfs_littlefs_readdir(d, 0)
    IN  IF n <= 1 THEN r.out_dirent ELSE nth_readdir(r.d, n - 1)

FreshReaddir(d, n) == nth_readdir([d EXCEPT !.pos = 0, !.offset = 0], n)

NumReal(d) == Cardinality({k \in 1 .. Len(d.list) : ~is_pseudo(d.list[k].name)})

\* A seekdir whose engine calls all succeeded: the stream stands at the
\* offset that was asked for.
SeekDone(out, d2) == out.op = "seekdir" /\ d2.offset = out.fd

\* C21: after a seekdir(k) with k up to the number of real entries, the
\* next readdir returns what the (k+1)-th readdir of a fresh iteration
\* returns, whether the seek rewound or not; after seekdir(telldir()) the
\* next readdir returns what it would have returned without the seek.
C21_SeekThenRead ==
    [][SeekDone(last', dir')
       => (/\ last'.fd <= NumReal(dir)
              => vfs_littlefs_readdir(dir', 0).out_dirent = FreshReaddir(dir, last'.fd + 1)
           /\ last'.fd = vfs_littlefs_telldir(dir)
              => vfs_littlefs_readdir(dir', 0).out_dirent
                     = vfs_littlefs_readdir(dir, 0).out_dirent)]_vars

\* A backward seekdir(1) on a directory of two entries has rewound the
\* stream and replayed one entry.
C21_Witness ==
    /\ last.op = "seekdir" /\ "rewind" \in last.args /\ last.fd = 1
    /\ dir.offset = 1 /\ dir.pos = 3 /\ NumReal(dir) = 2

\* The number of real entries the engine has handed out since the start of
\* the listing of stream d.
Consumed(d) == Cardinality({k \in 1 .. d.pos : ~is_pseudo(d.list[k].name)})

\* C29: telldir is the number of real entries consumed since the start of
\* the directory; a readdir adds one to the offset when it returns an entry
\* and nothing otherwise; the offset of an open stream decreases only in a
\* backward seekdir.
C29_OffsetCountsEntries ==
    /\ [](dir.open => vfs_littlefs_telldir(dir) = Consumed(dir))
    /\ [][last'.op = "readdir"
          => dir'.offset = dir.offset + (IF "entry" \in last'.args THEN 1 ELSE 0)]_vars
    /\ [][(dir'.open /\ dir'.offset < dir.offset)
          => (last'.op = "seekdir" /\ "rewind" \in last'.args)]_vars

(***************************************************************************)
(* Properties of the flag translation (SpecFlags).                         *)
(***************************************************************************)
\* The engine flags the translation of m sets.  LFS_O_RDWR is the value
\* LFS_O_RDONLY | LFS_O_WRONLY, so a flag is set by or-ing its value into
\* the result.
FlagsSetFor(m) ==
    (IF BitAnd(m, O_WRONLY) # 0 THEN {LFS_O_WRONLY} ELSE {})
    \cup (IF BitAnd(m, O_RDWR) # 0 THEN {LFS_O_RDWR} ELSE {})
    \cup (IF BitAnd(m, O_EXCL) # 0 THEN {LFS_O_EXCL} ELSE {})
    \cup (IF BitAnd(m, O_CREAT) # 0 THEN {LFS_O_CREAT} ELSE {})
    \cup (IF BitAnd(m, O_TRUNC) # 0 THEN {LFS_O_TRUNC} ELSE {})
    \cup (IF m = O_RDONLY THEN {LFS_O_RDONLY} ELSE {})
    \cup (IF m = O_APPEND THEN {LFS_O_APPEND} ELSE {})

InOpen(t) == pc[t] \in {"open_alloc", "open_bind", "open_engine"}

\* C30: the engine flags of an open call are those of write-only,
\* read-write, exclusive, create and truncate whose bit is set in the
\* caller's flags, read-only when the caller's flags equal O_RDONLY and
\* append when they equal O_APPEND, and nothing else; in particular the
\* append flag is in the result exactly when the flags equal O_APPEND.
C30_FlagTranslation ==
    \A t \in Threads :
        InOpen(t) =>
            LET m == loc[t].flags
                lfs_flags == esp_littlefs_flags_conv(m)
            IN  /\ lfs_flags = OrAll(FlagsSetFor(m))
                /\ BitAnd(lfs_flags, LFS_O_APPEND) # 0 <=> m = O_APPEND
                /\ BitAnd(lfs_flags, LFS_O_EXCL) # 0 <=> BitAnd(m, O_EXCL) # 0
                /\ BitAnd(lfs_flags, LFS_O_CREAT) # 0 <=> BitAnd(m, O_CREAT) # 0
                /\ BitAnd(lfs_flags, LFS_O_TRUNC) # 0 <=> BitAnd(m, O_TRUNC) # 0

C30_Witness ==
    \E t \in Threads :
        /\ pc[t] = "open_engine"
        /\ loc[t].flags = BitOr(O_APPEND, BitOr(O_WRONLY, O_CREAT))
        /\ BitAnd(esp_littlefs_flags_conv(loc[t].flags), LFS_O_APPEND) = 0
        /\ BitAnd(esp_littlefs_flags_conv(loc[t].flags), LFS_O_WRONLY) # 0

\* C31: a directory entry point whose engine call returned an error
\* returns the failure value (-1, a null pointer for opendir and readdir)
\* and sets errno to the negated engine code.
C31_EngineErrorSurfaced ==
    [][(last'.op \in {"opendir", "readdir", "closedir"} /\ "engine_error" \in last'.args)
       => (last'.ret = -1 /\ last'.err = -LFS_ERR_IO)]_vars

\* C32: the descriptor a successful open returns is below the capacity of
\* the cache and its slot holds the record the open created: a record that
\* was not allocated before the call and now carries the path of the call.
C32_OpenReturnsBoundSlot ==
    [][(OpenSucceeded(last') /\ ~crashed')
       => (/\ last'.ret < efs'.cache_size
           /\ SlotBound(efs', last'.ret)
           /\ LET file == efs'.cache[last'.ret + 1]
              IN  /\ ~heap[file].live
                  /\ heap'[file].live
                  /\ heap'[file].path = last'.path)]_vars

(***************************************************************************)
(* Properties of the modification time (SpecMtime).                        *)
(***************************************************************************)
\* C33: a successful stat of a path, or fstat of a descriptor of that path,
\* that directly follows a successful utime(path, t) and in which no engine
\* call failed reports st_mtime = t.
C33_MtimeRoundTrip ==
    [][(/\ last.op = "utime" /\ last.ret = 0
        /\ last'.op \in {"stat", "fstat"} /\ last'.ret = 0 /\ last'.err = NoErrno
        /\ last'.path = last.path)
       => last'.args = last.args]_vars

(***************************************************************************)
(* Properties of esp_littlefs_info (SpecInfo).                             *)
(***************************************************************************)
\* C34: esp_littlefs_info on a label that is not registered returns a code
\* other than ESP_OK and writes no output; on a registered label it returns
\* ESP_OK and the total it writes is block_size * block_count.
C34_InfoUnknownLabel ==
    [][(last'.op = "info" /\ ~crashed')
       => IF esp_littlefs_by_label(_efs, last'.label) < 0
          THEN last'.ret # ESP_OK /\ last'.trace = <<>>
          ELSE /\ last'.ret = ESP_OK
               /\ "total" \in last'.args
                      => <<"total", CONFIG_LITTLEFS_BLOCK_SIZE * FlashBlocks>>
                             \in {last'.trace[k] : k \in DOMAIN last'.trace}]_vars

(***************************************************************************)
(* Properties of the replay loop of seekdir (SpecSeek).                    *)
(***************************************************************************)
\* C35: every seekdir returns: a thread in the replay loop leaves it,
\* whatever the target offset and the directory.
C35_SeekdirTerminates == (pc[1] = "seek_loop") ~> (pc[1] = "idle")

\* A seekdir to a target beyond the number of real entries has returned
\* with the stream at the end of the directory and the offset at the target.
C35_Witness ==
    /\ pc[1] = "idle"
    /\ last.op = "seekdir" /\ last.args = {}
    /\ dir.open
    /\ last.fd > Consumed([dir EXCEPT !.pos = Len(dir.list)])
    /\ dir.pos = Len(dir.list)
    /\ dir.offset = last.fd

(***************************************************************************)
(* Properties of the nested lock sections (SpecReenter).                   *)
(***************************************************************************)
\* How many times a thread at a position has taken the lock without giving
\* it back.
LockDepth(position) ==
    IF position = "idle" THEN 0
    ELSE IF position \in {"utime_set", "get_mtime"} THEN 2
    ELSE 1

\* C22: a thread about to take the lock inside open or fstat, which hold
\* it, does not wait; the lock's count is the number of takes its owner has
\* not given back; a thread that has returned does not own the lock, and
\* the lock is free when every call has returned.
C22_ReentrantBalanced ==
    /\ \A t \in Threads :
           /\ pc[t] \in {"utime_take", "get_mtime_take"} => sem_take_ready(t)
           /\ pc[t] # "idle" => lock.owner = t /\ lock.count = LockDepth(pc[t])
           /\ pc[t] = "idle" => lock.owner # t
    /\ (\A t \in Threads : pc[t] = "idle") => lock = Unlocked

\* A thread has taken the lock a second time inside open while another
\* thread is between calls.
C22_Witness ==
    \E t \in Threads :
        /\ pc[t] = "utime_set" /\ lock = [owner |-> t, count |-> 2]
        /\ \E u \in Threads \ {t} : pc[u] = "idle"

(***************************************************************************)
(* Properties of a release that finds the list damaged (SpecInconsistent). *)
(***************************************************************************)
\* Slot fd of volume e holds a record that is not on the open-file list.
SlotWithoutNode(e, fd) ==
    /\ InCache(e, fd)
    /\ e.cache[fd + 1] \notin {NULL, WILD}
    /\ ~InList(e.file, e.cache[fd + 1])

\* C23: a close of a descriptor whose record is not on the open-file list
\* does not return 0, and it leaves the cache and fd_count as they were.
C23_InconsistencyReported ==
    [][(last'.op = "close" /\ ~crashed' /\ SlotWithoutNode(efs, last'.fd))
       => (/\ last'.ret # 0
           /\ efs'.cache = efs.cache
           /\ efs'.fd_count = efs.fd_count)]_vars

(***************************************************************************)
(* Properties of a failed esp_littlefs_init (SpecReg).                     *)
(***************************************************************************)
\* A register call that returned an error.
RegisterFailed(out) == out.op = "register" /\ out.ret # ESP_OK

\* C24: when a register call whose label was free returns an error, no slot
\* holds a volume of that label and no context the call allocated is left
\* without an owner.
C24_FailedInitDestroys ==
    [][(RegisterFailed(last') /\ hung' = hung
            /\ esp_littlefs_by_label(_efs, last'.label) < 0)
       => (/\ esp_littlefs_by_label(_efs', last'.label) < 0
           /\ leaked' = leaked)]_vars

\* C25: a register call for a label that a slot already holds returns an
\* error and leaves the registry, the volume in that slot and its open
\* files as they were.
C25_DuplicateLabelUntouched ==
    [][(last'.op = "register" /\ hung' = hung
            /\ esp_littlefs_by_label(_efs, last'.label) >= 0)
       => (/\ last'.ret # ESP_OK
           /\ _efs' = _efs
           /\ heap' = heap)]_vars

\* C27: a register call with format_if_mount_failed whose first mount
\* fails returns to its caller: it does not wait for the registry mutex
\* that it holds.
C27_AutoFormatReturns ==
    [][(FirstMountFailed(last') /\ "format_if_mount_failed" \in last'.args)
       => ~hung']_vars

(***************************************************************************)
(* Properties of the descriptor entry points (Spec).                       *)
(***************************************************************************)
\* C26: read, write, lseek, fsync, fstat and close on a descriptor inside
\* the cache whose slot is null return -1 with EBADF, change nothing and do
\* not fault.
C26_NullSlotRejected ==
    [][(last'.op \in FdOps \cup {"close"} /\ SlotNull(efs, last'.fd))
       => (/\ ~crashed'
           /\ last'.ret = -1
           /\ last'.err = -LFS_ERR_BADF
           /\ efs' = efs
           /\ heap' = heap)]_vars

(***************************************************************************)
(* Properties of the lookup by path (SpecFind).                            *)
(***************************************************************************)
\* The descriptors of volume e whose slot holds a record with the path.
FdsOfPath(e, h, path) ==
    {fd \in 0 .. Len(e.cache) - 1 : SlotBound(e, fd) /\ h[e.cache[fd + 1]].path = path}

\* C28: for every path, esp_littlefs_get_fd_by_name returns the lowest
\* descriptor whose slot holds a record with exactly that path, and -1 when
\* no slot of the whole cache holds one; a record with the same hash and
\* another path is not returned.
C28_FindByPath ==
    \A path \in FindPaths :
        LET d == esp_littlefs_get_fd_by_name(efs, heap, path)
            fds == FdsOfPath(efs, heap, path)
        IN  /\ d >= 0 => (d \in fds /\ \A fd \in fds : d <= fd)
            /\ d < 0 => (d = -1 /\ fds = {})

\* "/aa" is open on descriptor 0 and "/b@", which has the same hash, on
\* descriptor 1; an unlink of "/b@" has been refused.
C28_Witness ==
    /\ SlotBound(efs, 0) /\ heap[efs.cache[1]].path = PathAA
    /\ SlotBound(efs, 1) /\ heap[efs.cache[2]].path = PathBAt
    /\ heap[efs.cache[1]].hash = heap[efs.cache[2]].hash
    /\ esp_littlefs_get_fd_by_name(efs, heap, PathBAt) = 1
    /\ last.op = "unlink" /\ last.path = PathBAt /\ last.ret = -1

====
